---- MODULE Spec2Model ----
(***************************************************************************)
(* Turn-level orchestration of the end-to-end dialogue evaluation in       *)
(* genienlp/validate.py (generate_with_seq2seq_model_for_dialogue) and its  *)
(* helper replace_capturing_group.                                          *)
(*                                                                          *)
(* Text is a sequence of one-character strings, so that the regular         *)
(* expression search, str.strip, str.replace, re.sub and str.split are      *)
(* computed character by character, as Python computes them.                *)
(***************************************************************************)
EXTENDS Integers, Sequences, FiniteSets, Bags, TLC

VARIABLES
    pc,                     \* position in generate_with_seq2seq_model_for_dialogue
    exception,              \* the exception that ended the run, None while running
    output_predictions_only,
    original_order,         \* None or the list of original-order keys
    example_ids, predictions, answers, contexts,
    cur_dial_id, dialogue_state, new_state_text, new_knowledge_text, active_api,
    bitod_preds,            \* the per-dialogue report
    input_text,             \* the text handed to the model for the current turn
    msg,                    \* the local msg of the api branch, None while unbound
    generate_calls,         \* number of model.generate calls made
    api_calls,              \* the api.call_api calls made and what each did, in order
    persisted,              \* None or the report written to bitod_preds.json
    output,                 \* None or the GenerationOutput returned
    fn_args, fn_ret         \* arguments and result of a helper applied on its own

\* ------------------------------------------------------------------------
\* Python values
\* ------------------------------------------------------------------------

\* An optional value: None (or an unbound local) is the empty tuple, a bound
\* value v is <<v>>.
None == <<>>

Some(v) == <<v>>

\* The characters of the model's texts, in code point order.
Alphabet ==
    <<" ", "(", ")", ".", "/", "0", "1", "<", "=", ">", "H", "M", "N", "R",
      "a", "b", "c", "d", "e", "g", "h", "i", "k", "l", "m", "n", "o", "p",
      "q", "r", "s", "t", "u", "v", "w", "x", "y">>

ord(c) == CHOOSE i \in 1..Len(Alphabet) : Alphabet[i] = c

\* str.__lt__: lexicographic comparison by code point.
RECURSIVE str_lt(_, _)
str_lt(a, b) ==
    IF b = <<>> THEN FALSE
    ELSE IF a = <<>> THEN TRUE
    ELSE IF Head(a) = Head(b) THEN str_lt(Tail(a), Tail(b))
    ELSE ord(Head(a)) < ord(Head(b))

Whitespace == {" "}

RECURSIVE lstrip(_)
lstrip(s) == IF s # <<>> /\ Head(s) \in Whitespace THEN lstrip(Tail(s)) ELSE s

RECURSIVE rstrip(_)
rstrip(s) ==
    IF s # <<>> /\ s[Len(s)] \in Whitespace THEN rstrip(SubSeq(s, 1, Len(s) - 1)) ELSE s

\* str.strip()
strip(s) == rstrip(lstrip(s))

\* s[i-1:].startswith(sub), for a 1-based index i
startswith_at(s, sub, i) ==
    /\ i + Len(sub) - 1 <= Len(s)
    /\ SubSeq(s, i, i + Len(sub) - 1) = sub

\* str.find from the 1-based index i: the first index >= i where sub
\* occurs, 0 when there is none.
RECURSIVE str_find(_, _, _)
str_find(s, sub, i) ==
    IF i + Len(sub) - 1 > Len(s) THEN 0
    ELSE IF startswith_at(s, sub, i) THEN i
    ELSE str_find(s, sub, i + 1)

\* str.replace(old, new): every non-overlapping occurrence of old, left to
\* right; for an empty old, new is inserted before every character and at
\* the end.
RECURSIVE str_replace(_, _, _)
str_replace(s, old, new) ==
    IF old = <<>>
    THEN IF s = <<>> THEN new
         ELSE new \o <<Head(s)>> \o str_replace(Tail(s), old, new)
    ELSE IF s = <<>> THEN <<>>
    ELSE IF startswith_at(s, old, 1)
         THEN new \o str_replace(SubSeq(s, Len(old) + 1, Len(s)), old, new)
         ELSE <<Head(s)>> \o str_replace(Tail(s), old, new)

\* str.split(sep) for a one-character separator.
RECURSIVE str_split(_, _)
str_split(s, sep) ==
    LET i == str_find(s, <<sep>>, 1)
    IN  IF i = 0 THEN <<s>>
        ELSE <<SubSeq(s, 1, i - 1)>> \o str_split(SubSeq(s, i + 1, Len(s)), sep)

\* ------------------------------------------------------------------------
\* The two span patterns.  A compiled pattern MARKER + '(.*?)(?:$|<)' is
\* represented by its literal MARKER; the lazy group and the terminator are
\* computed by re_match_at.  The alphabet has no newline, so '.' matches
\* every character and '$' matches only at the end of the text.
\* ------------------------------------------------------------------------

\* re.compile('<state> (.*?)(?:$|<)')
state_re == <<"<", "s", "t", "a", "t", "e", ">", " ">>

\* re.compile('<knowledge> (.*?)(?:$|<)')
knowledge_re == <<"<", "k", "n", "o", "w", "l", "e", "d", "g", "e", ">", " ">>

\* The match of the pattern that starts at index i (the literal occurs at i):
\* group 1 is the shortest run up to the next '<' or the end of the text,
\* group 0 is the literal, the run and the '<' when there is one.
re_match_at(re_pattern, input, i) ==
    LET b == i + Len(re_pattern)
        lt == str_find(input, <<"<">>, b)
        e == IF lt = 0 THEN Len(input) ELSE lt
    IN  [start |-> i,
         end |-> e,
         group0 |-> SubSeq(input, i, e),
         group1 |-> SubSeq(input, b, IF lt = 0 THEN Len(input) ELSE lt - 1)]

\* re_pattern.search(input): None or the leftmost match.
re_search(re_pattern, input) ==
    LET i == str_find(input, re_pattern, 1)
    IN  IF i = 0 THEN None ELSE Some(re_match_at(re_pattern, input, i))

\* re.sub(re_pattern, repl, input): every non-overlapping match, left to
\* right, is replaced by repl (repl holds no backslash, so it is literal).
RECURSIVE re_sub_from(_, _, _, _)
re_sub_from(re_pattern, repl, input, pos) ==
    LET i == str_find(input, re_pattern, pos)
    IN  IF i = 0 THEN SubSeq(input, pos, Len(input))
        ELSE LET m == re_match_at(re_pattern, input, i)
             IN  SubSeq(input, pos, i - 1) \o repl
                   \o re_sub_from(re_pattern, repl, input, m.end + 1)

re_sub(re_pattern, repl, input) == re_sub_from(re_pattern, repl, input, 1)

\* The result of a call that raised: a one-element tuple naming the
\* exception; no text has a character of more than one letter.
Raised(exc) == <<exc>>

IsRaised(r) == Len(r) = 1 /\ r[1] \in {"AttributeError", "KeyError", "ValueError",
                                        "UnboundLocalError", "NameError"}

\* replace_capturing_group that returns a text without the marker as it is
replace_capturing_group_lenient(input, re_pattern, replacement) ==
    LET m == re_search(re_pattern, input)
    IN  IF m = None THEN input
        ELSE LET whole_match == strip(m[1].group0)
                 captured_match == strip(m[1].group1)
                 new_whole_match == str_replace(whole_match, captured_match, replacement)
             IN  re_sub(re_pattern, new_whole_match, input)

\* replace_capturing_group(input, re_pattern, replacement); search() of a
\* text without the marker is None, and None.group raises AttributeError.
replace_capturing_group(input, re_pattern, replacement) ==
    LET m == re_search(re_pattern, input)
    IN  IF m = None THEN Raised("AttributeError")
        ELSE LET whole_match == strip(m[1].group0)
                 captured_match == strip(m[1].group1)
                 new_whole_match == str_replace(whole_match, captured_match, replacement)
             IN  re_sub(re_pattern, new_whole_match, input)

\* ------------------------------------------------------------------------
\* Python containers
\* ------------------------------------------------------------------------

\* {} : the empty dict
EmptyDict == [k \in {} |-> k]

Last(s) == s[Len(s)]

Range(s) == {s[i] : i \in 1..Len(s)}

\* dict.get(k, default)
dict_get(d, k, default) == IF k \in DOMAIN d THEN d[k] ELSE default

\* d[k] = v
dict_set(d, k, v) == (k :> v) @@ d

\* d.update(other)
dict_update(d, other) == other @@ d

\* the keys of a dict whose keys are texts, in ascending str order
RECURSIVE sorted_keys(_)
sorted_keys(S) ==
    IF S = {} THEN <<>>
    ELSE LET k == CHOOSE x \in S : \A y \in S \ {x} : str_lt(x, y)
         IN  <<k>> \o sorted_keys(S \ {k})

Digits == <<"0", "1", "2", "3", "4", "5", "6", "7", "8", "9">>

IsDigit(c) == \E i \in 1..10 : Digits[i] = c

DigitValue(c) == (CHOOSE i \in 1..10 : Digits[i] = c) - 1

\* int(s) for a text of decimal digits; None stands for the ValueError of any
\* other text.
RECURSIVE int_from(_, _)
int_from(s, acc) ==
    IF s = <<>> THEN acc ELSE int_from(Tail(s), 10 * acc + DigitValue(Head(s)))

int(s) ==
    IF s # <<>> /\ \A i \in 1..Len(s) : IsDigit(s[i]) THEN Some(int_from(s, 0)) ELSE None

\* str(n) for n >= 0
RECURSIVE str(_)
str(n) == IF n < 10 THEN <<Digits[n + 1]>> ELSE str(n \div 10) \o <<Digits[(n % 10) + 1]>>

\* ------------------------------------------------------------------------
\* The BiToD collaborators (imported at validate.py:40-43).  Only their
\* boundary is modelled: a span is a run of space-separated tokens, '(a)'
\* opens the block of API a and 's=v' gives slot s the value v.
\* ------------------------------------------------------------------------

\* list(required_slots.keys()) after the API_MAP relabelling of line 153
api_names == << <<"h">>, <<"r">> >>

\* r_en_API_MAP: the canonical API name to its reporting name
r_en_API_MAP == (<<"h">> :> <<"H">>) @@ (<<"r">> :> <<"R">>)

\* a dict with its insertion order: keys in order, val the mapping
EmptyOrderedDict == [keys |-> <<>>, val |-> EmptyDict]

IsApiToken(tok, names) ==
    /\ Len(tok) >= 3
    /\ Head(tok) = "("
    /\ Last(tok) = ")"
    /\ SubSeq(tok, 2, Len(tok) - 1) \in Range(names)

RECURSIVE span2state_from(_, _, _, _)
span2state_from(tokens, names, current, acc) ==
    IF tokens = <<>> THEN acc
    ELSE LET tok == Head(tokens)
             eq == str_find(tok, <<"=">>, 1)
         IN  IF IsApiToken(tok, names)
             THEN LET a == SubSeq(tok, 2, Len(tok) - 1)
                  IN  span2state_from(Tail(tokens), names, Some(a),
                        IF a \in DOMAIN acc.val THEN acc
                        ELSE [keys |-> Append(acc.keys, a),
                              val |-> dict_set(acc.val, a, EmptyDict)])
             ELSE IF eq > 1 /\ current # None
             THEN LET a == current[1]
                      slot == SubSeq(tok, 1, eq - 1)
                      value == SubSeq(tok, eq + 1, Len(tok))
                  IN  span2state_from(Tail(tokens), names, current,
                        [acc EXCEPT !.val = dict_set(acc.val, a, dict_set(acc.val[a], slot, value))])
             ELSE span2state_from(Tail(tokens), names, current, acc)

\* span2state(span, api_names): the state a span encodes, as a plain dict in
\* the order the APIs appear; tokens that fit no rule are skipped, so 'null'
\* and malformed text give the empty dict.
span2state(span, names) ==
    span2state_from(str_split(span, " "), names, None, EmptyOrderedDict)

RECURSIVE slots2span(_, _)
slots2span(slots, keys) ==
    IF keys = <<>> THEN <<>>
    ELSE <<" ">> \o Head(keys) \o <<"=">> \o slots[Head(keys)] \o slots2span(slots, Tail(keys))

RECURSIVE dict2span(_, _)
dict2span(d, keys) ==
    IF keys = <<>> THEN <<>>
    ELSE LET a == Head(keys)
             block == <<"(">> \o a \o <<")">> \o slots2span(d[a], sorted_keys(DOMAIN d[a]))
             rest == dict2span(d, Tail(keys))
         IN  IF rest = <<>> THEN block ELSE block \o <<" ">> \o rest

\* state2span(dialogue_state, required_slots): 'null' for the empty state
state2span(state, required_slots) ==
    IF DOMAIN state = {} THEN <<"n", "u", "l", "l">>
    ELSE dict2span(state, SelectSeq(required_slots, LAMBDA a : a \in DOMAIN state))

\* knowledge2span(knowledge)
knowledge2span(knowledge) == dict2span(knowledge, sorted_keys(DOMAIN knowledge))

\* state2constraints(slots): every slot value becomes an equality constraint
state2constraints(slots) == [s \in DOMAIN slots |-> <<"equal_to", slots[s]>>]

\* ------------------------------------------------------------------------
\* Bounded inputs of the dialogue pipeline
\* ------------------------------------------------------------------------

\* the longest turn stream
MaxTurns == 3

Txt_null == <<"n", "u", "l", "l">>

Txt_yes == <<"y", "e", "s">>

Txt_no == <<"n", "o">>

Txt_dst == <<"d", "s", "t">>

Txt_api == <<"a", "p", "i">>

Txt_response == <<"r", "e", "s", "p", "o", "n", "s", "e">>

\* '(h) p=c'
Txt_h_pc == <<"(", "h", ")", " ", "p", "=", "c">>

\* '(h) p=d q=d (r) p=c'
Txt_h_pd_qd_r_pc ==
    <<"(", "h", ")", " ", "p", "=", "d", " ", "q", "=", "d", " ",
      "(", "r", ")", " ", "p", "=", "c">>

\* '<state> null <knowledge> null'
Ctx_null == state_re \o Txt_null \o <<" ">> \o knowledge_re \o Txt_null

\* '<state> (h) p=c <knowledge> null'
Ctx_gold == state_re \o Txt_h_pc \o <<" ">> \o knowledge_re \o Txt_null

\* 't/<dial>/<turn>/<sub-task>'
ExampleId(dial, turn, target) == <<"t", "/", dial, "/", turn, "/">> \o target

\* One batch of the data iterator: the example ids of the batch, the context
\* text its tokens decode to and the gold answer.
Turn(dial, turn, target, context, answer) ==
    [example_id |-> <<ExampleId(dial, turn, target)>>, context |-> context, answer |-> answer]

\* The turns the data iterator can yield, in any order and any number of
\* times: two dialogues a and b, turn indices 0 and 1, the three sub-tasks
\* and an unrecognized one.
Dataset ==
    { Turn("a", "0", Txt_dst, Ctx_null, Txt_h_pc),
      Turn("a", "0", Txt_api, Ctx_gold, Txt_yes),
      Turn("a", "0", Txt_response, Ctx_gold, <<"o", "k">>),
      Turn("a", "1", Txt_dst, Ctx_gold, Txt_h_pd_qd_r_pc),
      Turn("a", "1", Txt_api, Ctx_gold, Txt_no),
      Turn("b", "0", Txt_dst, Ctx_null, Txt_h_pc),
      Turn("b", "1", <<"x">>, Ctx_null, Txt_null) }

\* The texts the model can generate in a turn of the given sub-task.
ModelOutputs(train_target) ==
    IF train_target = Txt_dst THEN {Txt_h_pc, Txt_h_pd_qd_r_pc, Txt_null}
    ELSE IF train_target = Txt_api THEN {Txt_yes, Txt_no, <<"m">>}
    ELSE {<<"h", "i">>}

\* What api.call_api can do: raise, or return [items, count, query] with no
\* item or with two items of which items holds the top one.  Python's
\* msg[0], msg[1], msg[2] are msg[1], msg[2], msg[3] here.
ApiRaises == <<"raise">>

ApiOutcomes ==
    { ApiRaises,
      <<EmptyDict, 0, <<"q">>>>,
      <<(<<"n">> :> <<"x">>), 2, <<"q">>>> }

\* numericalizer._tokenizer.src_lang
src_lang == <<"e", "n">>

\* The arguments (output_predictions_only, original_order) of a run: the
\* lists are returned with the answers and sorted back by one key per turn
\* of the longest stream, in descending order, or the predictions alone are
\* returned unsorted.  The other two combinations are those of InitSort.
RunArguments == { <<FALSE, Some([i \in 1..MaxTurns |-> MaxTurns - i])>>, <<TRUE, None>> }

\* ------------------------------------------------------------------------
\* generate_with_seq2seq_model_for_dialogue
\* ------------------------------------------------------------------------

\* task_name, dial_id, turn_id, train_target = example_ids[-1].split('/')
id_parts == str_split(Last(example_ids), "/")

dial_id == id_parts[2]

turn_id == int(id_parts[3])[1]

train_target == id_parts[4]

\* NewDialogueLocals that carries dialogue_state into the new dialogue
NewDialogueLocals_state_kept(dial) ==
    [cur_dial_id |-> dial,
     dialogue_state |-> dialogue_state,
     new_state_text |-> Txt_null,
     new_knowledge_text |-> Txt_null,
     active_api |-> None]

\* NewDialogueLocals without the reset of the knowledge text and ActiveAPI
NewDialogueLocals_partial(dial) ==
    [cur_dial_id |-> dial,
     dialogue_state |-> EmptyDict,
     new_state_text |-> Txt_null,
     new_knowledge_text |-> new_knowledge_text,
     active_api |-> active_api]

\* the values of lines 172-176 for a new dialogue
NewDialogueLocals(dial) ==
    [cur_dial_id |-> dial,
     dialogue_state |-> EmptyDict,
     new_state_text |-> Txt_null,
     new_knowledge_text |-> Txt_null,
     active_api |-> None]

\* {"turns": defaultdict(dict), "API": defaultdict(dict)}
NewDialogueReport == [turns |-> EmptyDict, API |-> EmptyDict]

Init ==
    /\ pc = "next"
    /\ exception = None
    /\ \E arguments \in RunArguments :
         /\ output_predictions_only = arguments[1]
         /\ original_order = arguments[2]
    /\ example_ids = <<>>
    /\ predictions = <<>>
    /\ answers = <<>>
    /\ contexts = <<>>
    /\ cur_dial_id = <<>>
    \* the four locals below are unbound until line 169 binds them; every
    \* dialogue id of the dataset differs from '', so the first turn binds
    \* them before any read
    /\ dialogue_state = EmptyDict
    /\ new_state_text = Txt_null
    /\ new_knowledge_text = Txt_null
    /\ active_api = None
    /\ bitod_preds = EmptyDict
    /\ input_text = <<>>
    /\ msg = None
    /\ generate_calls = 0
    /\ api_calls = <<>>
    /\ persisted = None
    /\ output = None
    /\ fn_args = None
    /\ fn_ret = None

Raise(exc) ==
    /\ pc' = "raised"
    /\ exception' = Some(exc)

\* NextTurnOf that asserts only that the batch is not empty
NextTurnOf_nonempty_batch(batches) ==
    /\ pc = "next"
    /\ Len(example_ids) < MaxTurns
    /\ \E turn \in batches :
         LET ids == example_ids \o turn.example_id
             parts == str_split(Last(ids), "/")
         IN  /\ IF Len(turn.example_id) < 1
                THEN /\ Raise("AssertionError")
                     /\ UNCHANGED <<example_ids, contexts, answers, cur_dial_id, dialogue_state,
                                    new_state_text, new_knowledge_text, active_api,
                                    bitod_preds>>
                ELSE IF Len(parts) # 4 \/ int(parts[3]) = None
                THEN /\ Raise("ValueError")
                     /\ example_ids' = ids
                     /\ UNCHANGED <<contexts, answers, cur_dial_id, dialogue_state,
                                    new_state_text, new_knowledge_text, active_api,
                                    bitod_preds>>
                ELSE /\ example_ids' = ids
                     /\ IF cur_dial_id # parts[2]
                        THEN LET new == NewDialogueLocals(parts[2])
                             IN  /\ cur_dial_id' = new.cur_dial_id
                                 /\ dialogue_state' = new.dialogue_state
                                 /\ new_state_text' = new.new_state_text
                                 /\ new_knowledge_text' = new.new_knowledge_text
                                 /\ active_api' = new.active_api
                                 /\ bitod_preds' = dict_set(bitod_preds, parts[2], NewDialogueReport)
                        ELSE UNCHANGED <<cur_dial_id, dialogue_state, new_state_text,
                                         new_knowledge_text, active_api, bitod_preds>>
                     /\ contexts' = Append(contexts, turn.context)
                     /\ answers' = IF output_predictions_only THEN answers
                                   ELSE Append(answers, turn.answer)
                     /\ pc' = "input"
                     /\ UNCHANGED exception
    /\ UNCHANGED <<output_predictions_only, original_order, predictions, input_text, msg,
                   generate_calls, api_calls, persisted, output, fn_args, fn_ret>>

\* NextTurnOf that puts the context of the batch at the head of contexts
NextTurnOf_context_first(batches) ==
    /\ pc = "next"
    /\ Len(example_ids) < MaxTurns
    /\ \E turn \in batches :
         LET ids == example_ids \o turn.example_id
             parts == str_split(Last(ids), "/")
         IN  /\ IF Len(turn.example_id) # 1
                THEN /\ Raise("AssertionError")
                     /\ UNCHANGED <<example_ids, contexts, answers, cur_dial_id, dialogue_state,
                                    new_state_text, new_knowledge_text, active_api,
                                    bitod_preds>>
                ELSE IF Len(parts) # 4 \/ int(parts[3]) = None
                THEN /\ Raise("ValueError")
                     /\ example_ids' = ids
                     /\ UNCHANGED <<contexts, answers, cur_dial_id, dialogue_state,
                                    new_state_text, new_knowledge_text, active_api,
                                    bitod_preds>>
                ELSE /\ example_ids' = ids
                     /\ IF cur_dial_id # parts[2]
                        THEN LET new == NewDialogueLocals(parts[2])
                             IN  /\ cur_dial_id' = new.cur_dial_id
                                 /\ dialogue_state' = new.dialogue_state
                                 /\ new_state_text' = new.new_state_text
                                 /\ new_knowledge_text' = new.new_knowledge_text
                                 /\ active_api' = new.active_api
                                 /\ bitod_preds' = dict_set(bitod_preds, parts[2], NewDialogueReport)
                        ELSE UNCHANGED <<cur_dial_id, dialogue_state, new_state_text,
                                         new_knowledge_text, active_api, bitod_preds>>
                     /\ contexts' = <<turn.context>> \o contexts
                     /\ answers' = IF output_predictions_only THEN answers
                                   ELSE Append(answers, turn.answer)
                     /\ pc' = "input"
                     /\ UNCHANGED exception
    /\ UNCHANGED <<output_predictions_only, original_order, predictions, input_text, msg,
                   generate_calls, api_calls, persisted, output, fn_args, fn_ret>>

\* Lines 158-201: the next batch of the iterator; its id is appended and
\* parsed, a new dialogue id resets the per-dialogue locals and the report
\* entry of the dialogue, the context and the gold answer are appended.
NextTurnOf(batches) ==
    /\ pc = "next"
    /\ Len(example_ids) < MaxTurns
    /\ \E turn \in batches :
         LET ids == example_ids \o turn.example_id
             parts == str_split(Last(ids), "/")
         IN  /\ IF Len(turn.example_id) # 1
                THEN /\ Raise("AssertionError")
                     /\ UNCHANGED <<example_ids, contexts, answers, cur_dial_id, dialogue_state,
                                    new_state_text, new_knowledge_text, active_api,
                                    bitod_preds>>
                ELSE IF Len(parts) # 4 \/ int(parts[3]) = None
                THEN /\ Raise("ValueError")
                     /\ example_ids' = ids
                     /\ UNCHANGED <<contexts, answers, cur_dial_id, dialogue_state,
                                    new_state_text, new_knowledge_text, active_api,
                                    bitod_preds>>
                ELSE /\ example_ids' = ids
                     /\ IF cur_dial_id # parts[2]
                        THEN LET new == NewDialogueLocals(parts[2])
                             IN  /\ cur_dial_id' = new.cur_dial_id
                                 /\ dialogue_state' = new.dialogue_state
                                 /\ new_state_text' = new.new_state_text
                                 /\ new_knowledge_text' = new.new_knowledge_text
                                 /\ active_api' = new.active_api
                                 /\ bitod_preds' = dict_set(bitod_preds, parts[2], NewDialogueReport)
                        ELSE UNCHANGED <<cur_dial_id, dialogue_state, new_state_text,
                                         new_knowledge_text, active_api, bitod_preds>>
                     /\ contexts' = Append(contexts, turn.context)
                     /\ answers' = IF output_predictions_only THEN answers
                                   ELSE Append(answers, turn.answer)
                     /\ pc' = "input"
                     /\ UNCHANGED exception
    /\ UNCHANGED <<output_predictions_only, original_order, predictions, input_text, msg,
                   generate_calls, api_calls, persisted, output, fn_args, fn_ret>>

NextTurn == NextTurnOf(Dataset)

\* required_slots, of which only the order of the keys is used
required_slots == api_names

\* BuildInput that builds the input of a dst turn for every sub-task it
\* does not recognize
BuildInput_any_target(target, context, state, state_text, knowledge_text) ==
    [new_state_text |-> state_text,
     input_text |-> replace_capturing_group(context, state_re, state_text)]

\* BuildInput that leaves the knowledge span of a response turn as the
\* context has it
BuildInput_context_knowledge(target, context, state, state_text, knowledge_text) ==
    IF target = Txt_dst
    THEN [new_state_text |-> state_text,
          input_text |-> replace_capturing_group(context, state_re, state_text)]
    ELSE IF target = Txt_api
    THEN LET rendered == state2span(state, required_slots)
         IN  [new_state_text |-> rendered,
              input_text |-> replace_capturing_group(context, state_re, rendered)]
    ELSE IF target = Txt_response
    THEN [new_state_text |-> state_text,
          input_text |-> replace_capturing_group(context, state_re, state_text)]
    ELSE [new_state_text |-> state_text, input_text |-> Raised("ValueError")]

\* BuildInput that renders the state text from the state in a dst turn too
BuildInput_dst_rendered(target, context, state, state_text, knowledge_text) ==
    IF target = Txt_dst \/ target = Txt_api
    THEN LET rendered == state2span(state, required_slots)
         IN  [new_state_text |-> rendered,
              input_text |-> replace_capturing_group(context, state_re, rendered)]
    ELSE IF target = Txt_response
    THEN LET with_state == replace_capturing_group(context, state_re, state_text)
         IN  [new_state_text |-> state_text,
              input_text |-> IF IsRaised(with_state) THEN with_state
                             ELSE replace_capturing_group(with_state, knowledge_re,
                                                          knowledge_text)]
    ELSE [new_state_text |-> state_text, input_text |-> Raised("ValueError")]

\* BuildInput that gives an api turn the state text of the turn before
BuildInput_api_state_text(target, context, state, state_text, knowledge_text) ==
    IF target = Txt_dst \/ target = Txt_api
    THEN [new_state_text |-> state_text,
          input_text |-> replace_capturing_group(context, state_re, state_text)]
    ELSE IF target = Txt_response
    THEN LET with_state == replace_capturing_group(context, state_re, state_text)
         IN  [new_state_text |-> state_text,
              input_text |-> IF IsRaised(with_state) THEN with_state
                             ELSE replace_capturing_group(with_state, knowledge_re,
                                                          knowledge_text)]
    ELSE [new_state_text |-> state_text, input_text |-> Raised("ValueError")]

\* Lines 203-225: the model input of a turn and the new_state_text it leaves;
\* input_text is Raised(..) when a marker is missing or the sub-task is not
\* recognized.
BuildInput(target, context, state, state_text, knowledge_text) ==
    IF target = Txt_dst
    THEN [new_state_text |-> state_text,
          input_text |-> replace_capturing_group(context, state_re, state_text)]
    ELSE IF target = Txt_api
    THEN LET rendered == state2span(state, required_slots)
         IN  [new_state_text |-> rendered,
              input_text |-> replace_capturing_group(context, state_re, rendered)]
    ELSE IF target = Txt_response
    THEN LET with_state == replace_capturing_group(context, state_re, state_text)
         IN  [new_state_text |-> state_text,
              input_text |-> IF IsRaised(with_state) THEN with_state
                             ELSE replace_capturing_group(with_state, knowledge_re,
                                                          knowledge_text)]
    ELSE [new_state_text |-> state_text, input_text |-> Raised("ValueError")]

\* Lines 203-265: the input is built, the model generates one output for
\* it and the output is appended to predictions.
GenerateTurn ==
    /\ pc = "input"
    /\ LET built == BuildInput(train_target, Last(contexts), dialogue_state,
                               new_state_text, new_knowledge_text)
       IN  /\ new_state_text' = built.new_state_text
           /\ IF IsRaised(built.input_text)
              THEN /\ Raise(built.input_text[1])
                   /\ UNCHANGED <<input_text, predictions, generate_calls>>
              ELSE /\ input_text' = built.input_text
                   /\ generate_calls' = generate_calls + 1
                   /\ \E generated \in ModelOutputs(train_target) :
                        predictions' = Append(predictions, <<generated>>)
                   /\ pc' = "update"
                   /\ UNCHANGED exception
    /\ UNCHANGED <<output_predictions_only, original_order, example_ids, answers, contexts,
                   cur_dial_id, dialogue_state, new_knowledge_text, active_api, bitod_preds,
                   msg, api_calls, persisted, output, fn_args, fn_ret>>

\* merge_api in which a slot already present keeps its value
merge_api_existing_wins(state, api_name, slots) ==
    IF api_name \notin DOMAIN state
    THEN dict_set(state, api_name, slots)
    ELSE dict_set(state, api_name, dict_update(slots, state[api_name]))

\* merge_api in which the value of a slot already present is extended by the
\* new value
merge_api_accumulating(state, api_name, slots) ==
    IF api_name \notin DOMAIN state
    THEN dict_set(state, api_name, slots)
    ELSE dict_set(state, api_name,
                  [sl \in DOMAIN state[api_name] \cup DOMAIN slots |->
                      IF sl \notin DOMAIN slots THEN state[api_name][sl]
                      ELSE IF sl \notin DOMAIN state[api_name] THEN slots[sl]
                      ELSE state[api_name][sl] \o slots[sl]])

\* merge_api with the slots of an API already present replaced wholesale
merge_api_wholesale(state, api_name, slots) == dict_set(state, api_name, slots)

\* Lines 273-276: the slots of one API of the update go into dialogue_state.
merge_api(state, api_name, slots) ==
    IF api_name \notin DOMAIN state
    THEN dict_set(state, api_name, slots)
    ELSE dict_set(state, api_name, dict_update(state[api_name], slots))

\* apply_state_update in which the first API of the update stays the active
\* one
RECURSIVE apply_state_update_first_active(_, _, _, _)
apply_state_update_first_active(keys, state_update, state, active) ==
    IF keys = <<>> THEN [dialogue_state |-> state, active_api |-> active]
    ELSE LET rest == apply_state_update_first_active(Tail(keys), state_update,
                         merge_api(state, Head(keys), state_update[Head(keys)]), active)
         IN  [dialogue_state |-> rest.dialogue_state, active_api |-> Some(Head(keys))]

\* Lines 271-276: the loop over the APIs of state_update, in its order.
RECURSIVE apply_state_update(_, _, _, _)
apply_state_update(keys, state_update, state, active) ==
    IF keys = <<>> THEN [dialogue_state |-> state, active_api |-> active]
    ELSE apply_state_update(Tail(keys), state_update,
                            merge_api(state, Head(keys), state_update[Head(keys)]),
                            Some(Head(keys)))

\* Line 280: {r_en_API_MAP.get(k, k): v for k, v in state.items()}
relabel(k) == dict_get(r_en_API_MAP, k, k)

relabel_keys(state) ==
    [n \in {relabel(k) : k \in DOMAIN state} |->
        state[CHOOSE k \in DOMAIN state : relabel(k) = n]]

\* set_turn_entry that starts the entry of the turn index afresh
set_turn_entry_fresh(preds, dial, turn_key, key, value) ==
    [preds EXCEPT ![dial].turns = dict_set(@, turn_key, dict_set(EmptyDict, key, value))]

\* bitod_preds[dial]["turns"][turn_key][key] = value, turns being a
\* defaultdict(dict)
set_turn_entry(preds, dial, turn_key, key, value) ==
    [preds EXCEPT ![dial].turns =
        dict_set(@, turn_key, dict_set(dict_get(@, turn_key, EmptyDict), key, value))]

\* bitod_preds[dial]["API"][name] = constraints
set_api_entry(preds, dial, name, constraints) ==
    [preds EXCEPT ![dial].API = dict_set(@, name, constraints)]

\* Line 321: f'( {api_name} ) Message = No item available.'
no_item_message(api_name) ==
    <<"(", " ">> \o api_name \o
    <<" ", ")", " ", "M", "e", "s", "s", "a", "g", "e", " ", "=", " ", "N", "o", " ",
      "i", "t", "e", "m", " ", "a", "v", "a", "i", "l", "a", "b", "l", "e", ".">>

\* makes_api_call that takes every decision but 'no' for 'yes'
makes_api_call_unless_no(do_api_call, active, state) ==
    /\ do_api_call # Txt_no
    /\ active # None
    /\ active[1] \in DOMAIN state

\* makes_api_call without the membership test of line 292
makes_api_call_unguarded(do_api_call, active, state) == do_api_call = Txt_yes

\* makes_api_call that ignores the decision
makes_api_call_any_decision(do_api_call, active, state) ==
    /\ active # None
    /\ active[1] \in DOMAIN state

\* Lines 288 and 292: the call is made for 'yes' when active_api is a key of
\* dialogue_state (None never is).
makes_api_call(do_api_call, active, state) ==
    /\ do_api_call = Txt_yes
    /\ active # None
    /\ active[1] \in DOMAIN state

\* api_turn_knowledge that keeps the knowledge text of the turn before
api_turn_knowledge_kept(knowledge_text) == knowledge_text

\* Line 285: the knowledge text an api turn starts from.
api_turn_knowledge(knowledge_text) == Txt_null

\* Line 316: the gold state of the turn's context
gold_dial_state(context) ==
    span2state(strip(re_search(state_re, context)[1].group1), api_names)

\* ApiCall that encodes the record under the reporting name of the API, the
\* name the call was made with
ApiCall_reporting_name(outcome, api_name, constraints) ==
    IF outcome = ApiRaises /\ msg = None
    THEN [raised |-> Some("UnboundLocalError"), msg |-> msg,
          new_knowledge_text |-> api_turn_knowledge(new_knowledge_text),
          bitod_preds |-> bitod_preds]
    ELSE LET m == IF outcome = ApiRaises THEN <<0, 0, 0>> ELSE outcome
         IN  IF m[2] <= 0 /\ api_name \notin DOMAIN gold_dial_state(Last(contexts)).val
             THEN [raised |-> Some("KeyError"), msg |-> Some(m),
                   new_knowledge_text |-> api_turn_knowledge(new_knowledge_text),
                   bitod_preds |-> bitod_preds]
             ELSE [raised |-> None, msg |-> Some(m),
                   new_knowledge_text |->
                       IF m[2] <= 0 THEN no_item_message(api_name)
                       ELSE knowledge2span(relabel(api_name) :> dict_update(EmptyDict, m[1])),
                   bitod_preds |-> set_api_entry(bitod_preds, dial_id,
                                                 relabel(api_name), constraints)]

\* Lines 297-329 for one outcome of api.call_api: the new msg, knowledge
\* text and report, or the exception that escapes.
ApiCall(outcome, api_name, constraints) ==
    IF outcome = ApiRaises /\ msg = None
    THEN \* the handler reads msg[2] of a msg that was never bound (line 307)
         [raised |-> Some("UnboundLocalError"), msg |-> msg,
          new_knowledge_text |-> api_turn_knowledge(new_knowledge_text),
          bitod_preds |-> bitod_preds]
    ELSE LET m == IF outcome = ApiRaises THEN <<0, 0, 0>> ELSE outcome
         IN  IF m[2] <= 0 /\ api_name \notin DOMAIN gold_dial_state(Last(contexts)).val
             THEN \* gold_dial_state[api_name] of line 318
                  [raised |-> Some("KeyError"), msg |-> Some(m),
                   new_knowledge_text |-> api_turn_knowledge(new_knowledge_text),
                   bitod_preds |-> bitod_preds]
             ELSE [raised |-> None, msg |-> Some(m),
                   new_knowledge_text |->
                       IF m[2] <= 0 THEN no_item_message(api_name)
                       ELSE knowledge2span(api_name :> dict_update(EmptyDict, m[1])),
                   bitod_preds |-> set_api_entry(bitod_preds, dial_id,
                                                 relabel(api_name), constraints)]

\* Lines 267-282: a dst turn
UpdateDst ==
    LET lev == strip(Last(predictions)[1])
        state_update == span2state(lev, api_names)
        new == apply_state_update(state_update.keys, state_update.val,
                                  dialogue_state, active_api)
    IN  /\ dialogue_state' = new.dialogue_state
        /\ active_api' = new.active_api
        /\ bitod_preds' = set_turn_entry(bitod_preds, dial_id, str(turn_id), "state",
                                         relabel_keys(new.dialogue_state))
        /\ pc' = "next"
        /\ UNCHANGED <<exception, new_knowledge_text, msg, api_calls>>

\* Lines 284-341: an api turn
UpdateApi ==
    LET do_api_call == strip(Last(predictions)[1])
    IN  IF makes_api_call(do_api_call, active_api, dialogue_state)
        THEN IF active_api = None \/ active_api[1] \notin DOMAIN dialogue_state
             THEN \* dialogue_state[api_name] of line 293
                  /\ Raise("KeyError")
                  /\ new_knowledge_text' = api_turn_knowledge(new_knowledge_text)
                  /\ UNCHANGED <<dialogue_state, active_api, bitod_preds, msg, api_calls>>
             ELSE LET api_name == active_api[1]
                      constraints == state2constraints(dialogue_state[api_name])
                  IN  /\ \E outcome \in ApiOutcomes :
                           LET r == ApiCall(outcome, api_name, constraints)
                           IN  /\ api_calls' = Append(api_calls,
                                                      [api_name |-> relabel(api_name),
                                                       constraints |-> <<constraints>>,
                                                       lang |-> src_lang,
                                                       outcome |-> outcome])
                               /\ msg' = r.msg
                               /\ new_knowledge_text' = r.new_knowledge_text
                               /\ IF r.raised # None
                                  THEN /\ Raise(r.raised[1])
                                       /\ bitod_preds' = r.bitod_preds
                                  ELSE /\ bitod_preds' =
                                             set_turn_entry(r.bitod_preds, dial_id,
                                                            str(turn_id), "api",
                                                            r.new_knowledge_text)
                                       /\ pc' = "next"
                                       /\ UNCHANGED exception
                      /\ UNCHANGED <<dialogue_state, active_api>>
        ELSE /\ new_knowledge_text' = api_turn_knowledge(new_knowledge_text)
             /\ bitod_preds' = set_turn_entry(bitod_preds, dial_id, str(turn_id), "api",
                                              api_turn_knowledge(new_knowledge_text))
             /\ pc' = "next"
             /\ UNCHANGED <<exception, dialogue_state, active_api, msg, api_calls>>

\* UpdateResponse that also resets the knowledge text, as an api turn does
UpdateResponse_knowledge_reset ==
    /\ bitod_preds' = set_turn_entry(bitod_preds, dial_id, str(turn_id), "response",
                                     Last(predictions))
    /\ new_knowledge_text' = Txt_null
    /\ pc' = "next"
    /\ UNCHANGED <<exception, dialogue_state, active_api, msg, api_calls>>

\* UpdateResponse that ends the use of ActiveAPI once the response is given
UpdateResponse_active_api_cleared ==
    /\ bitod_preds' = set_turn_entry(bitod_preds, dial_id, str(turn_id), "response",
                                     Last(predictions))
    /\ active_api' = None
    /\ pc' = "next"
    /\ UNCHANGED <<exception, dialogue_state, new_knowledge_text, msg, api_calls>>

\* Lines 343-346: a response turn
UpdateResponse ==
    /\ bitod_preds' = set_turn_entry(bitod_preds, dial_id, str(turn_id), "response",
                                     Last(predictions))
    /\ pc' = "next"
    /\ UNCHANGED <<exception, dialogue_state, active_api, new_knowledge_text, msg, api_calls>>

\* Lines 267-346: the generated text is interpreted by sub-task.
UpdateTurn ==
    /\ pc = "update"
    /\ IF train_target = Txt_dst THEN UpdateDst
       ELSE IF train_target = Txt_api THEN UpdateApi
       ELSE UpdateResponse
    /\ UNCHANGED <<output_predictions_only, original_order, example_ids, predictions, answers,
                   contexts, cur_dial_id, new_state_text, input_text, generate_calls,
                   persisted, output, fn_args, fn_ret>>

\* Persist that writes the report between two turns and lets the loop go on
Persist_between_turns ==
    /\ pc = "next"
    /\ persisted' = Some(bitod_preds)
    /\ pc' = "next"
    /\ UNCHANGED <<exception, output_predictions_only, original_order, example_ids,
                   predictions, answers, contexts, cur_dial_id, dialogue_state,
                   new_state_text, new_knowledge_text, active_api, bitod_preds, input_text,
                   msg, generate_calls, api_calls, output, fn_args, fn_ret>>

\* Persist that writes the report only in a run that sorts back
Persist_only_when_ordered ==
    /\ pc = "next"
    /\ persisted' = IF original_order # None THEN Some(bitod_preds) ELSE None
    /\ pc' = "return"
    /\ UNCHANGED <<exception, output_predictions_only, original_order, example_ids,
                   predictions, answers, contexts, cur_dial_id, dialogue_state,
                   new_state_text, new_knowledge_text, active_api, bitod_preds, input_text,
                   msg, generate_calls, api_calls, output, fn_args, fn_ret>>

\* Lines 348-349: the iterator is exhausted and the report is written.
Persist ==
    /\ pc = "next"
    /\ persisted' = Some(bitod_preds)
    /\ pc' = "return"
    /\ UNCHANGED <<exception, output_predictions_only, original_order, example_ids,
                   predictions, answers, contexts, cur_dial_id, dialogue_state,
                   new_state_text, new_knowledge_text, active_api, bitod_preds, input_text,
                   msg, generate_calls, api_calls, output, fn_args, fn_ret>>

\* list.__lt__ for lists of str
RECURSIVE list_lt(_, _)
list_lt(a, b) ==
    IF b = <<>> THEN FALSE
    ELSE IF a = <<>> THEN TRUE
    ELSE IF Head(a) = Head(b) THEN list_lt(Tail(a), Tail(b))
    ELSE str_lt(Head(a), Head(b))

\* tuple_lt that compares the keys alone
tuple_lt_by_key(a, b) == a[1] < b[1]

\* tuple.__lt__ for (key, example_id, prediction, answer, context): the
\* first component that differs decides.
tuple_lt(a, b) ==
    IF a[1] # b[1] THEN a[1] < b[1]
    ELSE IF a[2] # b[2] THEN str_lt(a[2], b[2])
    ELSE IF a[3] # b[3] THEN list_lt(a[3], b[3])
    ELSE IF a[4] # b[4] THEN str_lt(a[4], b[4])
    ELSE str_lt(a[5], b[5])

Min(S) == CHOOSE x \in S : \A y \in S : x <= y

\* zip(a, b, c, d, e): as long as the shortest of the five
zip(a, b, c, d, e) ==
    [i \in 1..Min({Len(a), Len(b), Len(c), Len(d), Len(e)}) |->
        <<a[i], b[i], c[i], d[i], e[i]>>]

\* sorted(tuples): ascending by tuple.__lt__, equal tuples in input order
RECURSIVE insert_sorted(_, _)
insert_sorted(x, s) ==
    IF s = <<>> THEN <<x>>
    ELSE IF tuple_lt(x, Head(s)) THEN <<x>> \o s
    ELSE <<Head(s)>> \o insert_sorted(x, Tail(s))

RECURSIVE sorted_from(_, _)
sorted_from(s, acc) ==
    IF s = <<>> THEN acc ELSE sorted_from(Tail(s), insert_sorted(Head(s), acc))

sorted(s) == sorted_from(s, <<>>)

\* sort_back that leaves the predictions in processing order
sort_back_predictions_unsorted(order, ids, preds, golds, ctxs) ==
    LET s == sorted(zip(order, ids, preds, golds, ctxs))
    IN  IF s = <<>> THEN None
        ELSE Some([original_order |-> [i \in 1..Len(s) |-> s[i][1]],
                   example_ids |-> [i \in 1..Len(s) |-> s[i][2]],
                   predictions |-> SubSeq(preds, 1, Len(s)),
                   answers |-> [i \in 1..Len(s) |-> s[i][4]],
                   contexts |-> [i \in 1..Len(s) |-> s[i][5]]])

\* Lines 353-355: the five lists after sorting back, or None when the
\* unpacking of an empty zip raises ValueError.
sort_back(order, ids, preds, golds, ctxs) ==
    LET s == sorted(zip(order, ids, preds, golds, ctxs))
    IN  IF s = <<>> THEN None
        ELSE Some([original_order |-> [i \in 1..Len(s) |-> s[i][1]],
                   example_ids |-> [i \in 1..Len(s) |-> s[i][2]],
                   predictions |-> [i \in 1..Len(s) |-> s[i][3]],
                   answers |-> [i \in 1..Len(s) |-> s[i][4]],
                   contexts |-> [i \in 1..Len(s) |-> s[i][5]]])

\* Lines 357-366: the GenerationOutput
GenerationOutput(ids, preds, golds, ctxs) ==
    IF output_predictions_only
    THEN [loss |-> None, predictions |-> preds]
    ELSE [loss |-> None, example_ids |-> ids, predictions |-> preds,
          answers |-> golds, contexts |-> ctxs]

\* Lines 351-366: the lists are sorted back to the original order when it
\* was supplied, and the output is returned.
Return ==
    /\ pc = "return"
    /\ IF original_order # None
       THEN LET s == sort_back(original_order[1], example_ids, predictions, answers,
                               contexts)
            IN  IF s = None
                THEN /\ Raise("ValueError")
                     /\ UNCHANGED <<original_order, example_ids, predictions, answers,
                                    contexts, output>>
                ELSE /\ original_order' = Some(s[1].original_order)
                     /\ example_ids' = s[1].example_ids
                     /\ predictions' = s[1].predictions
                     /\ answers' = s[1].answers
                     /\ contexts' = s[1].contexts
                     /\ output' = Some(GenerationOutput(s[1].example_ids, s[1].predictions,
                                                        s[1].answers, s[1].contexts))
                     /\ pc' = "done"
                     /\ UNCHANGED exception
       ELSE /\ output' = Some(GenerationOutput(example_ids, predictions, answers, contexts))
            /\ pc' = "done"
            /\ UNCHANGED <<exception, original_order, example_ids, predictions, answers,
                           contexts>>
    /\ UNCHANGED <<output_predictions_only, cur_dial_id, dialogue_state, new_state_text,
                   new_knowledge_text, active_api, bitod_preds, input_text, msg,
                   generate_calls, api_calls, persisted, fn_args, fn_ret>>

vars ==
    <<pc, exception, output_predictions_only, original_order, example_ids, predictions,
      answers, contexts, cur_dial_id, dialogue_state, new_state_text, new_knowledge_text,
      active_api, bitod_preds, input_text, msg, generate_calls, api_calls, persisted,
      output, fn_args, fn_ret>>

Next == NextTurn \/ GenerateTurn \/ UpdateTurn \/ Persist \/ Return

Spec == Init /\ [][Next]_vars

\* ------------------------------------------------------------------------
\* replace_capturing_group applied to bounded inputs
\* ------------------------------------------------------------------------

\* Span contents: 'null', an encoded state, a text that occurs inside both
\* markers ('e'), an empty span.
SpanContents == {Txt_null, Txt_h_pc, <<"e">>, <<>>}

\* === text layouts of the bounded inputs ===
\* '<state> S', '<state> S <knowledge> null', 'x <state> S <knowledge> null y',
\* '<state> S <knowledge> null <state> b', '<knowledge> null' (no state marker)
SpanInputs ==
    UNION {
      { state_re \o s,
        state_re \o s \o <<" ">> \o knowledge_re \o Txt_null,
        <<"x", " ">> \o state_re \o s \o <<" ">> \o knowledge_re \o Txt_null \o <<" ", "y">>,
        state_re \o s \o <<" ">> \o knowledge_re \o Txt_null \o <<" ">> \o state_re \o <<"b">>
      } : s \in SpanContents }
    \cup { knowledge_re \o Txt_null }

SpanValues == {Txt_null, Txt_h_pc, <<"x">>}

\* the pipeline's variables while a helper is applied on its own
PipelineIdle ==
    /\ exception = None
    /\ output_predictions_only = FALSE
    /\ original_order = None
    /\ example_ids = <<>>
    /\ predictions = <<>>
    /\ answers = <<>>
    /\ contexts = <<>>
    /\ cur_dial_id = <<>>
    /\ dialogue_state = EmptyDict
    /\ new_state_text = Txt_null
    /\ new_knowledge_text = Txt_null
    /\ active_api = None
    /\ bitod_preds = EmptyDict
    /\ input_text = <<>>
    /\ msg = None
    /\ generate_calls = 0
    /\ api_calls = <<>>
    /\ persisted = None
    /\ output = None

pipeline_vars ==
    <<exception, output_predictions_only, original_order, example_ids, predictions,
      answers, contexts, cur_dial_id, dialogue_state, new_state_text, new_knowledge_text,
      active_api, bitod_preds, input_text, msg, generate_calls, api_calls, persisted,
      output>>

pipeline_vars_but_exception ==
    <<output_predictions_only, original_order, example_ids, predictions, answers, contexts,
      cur_dial_id, dialogue_state, new_state_text, new_knowledge_text, active_api,
      bitod_preds, input_text, msg, generate_calls, api_calls, persisted, output>>

InitSpan ==
    /\ pc = "call"
    /\ fn_args \in [input : SpanInputs, re_pattern : {state_re, knowledge_re},
                    replacement : SpanValues]
    /\ fn_ret = None
    /\ PipelineIdle

CallReplaceCapturingGroup ==
    /\ pc = "call"
    /\ fn_ret' = Some(replace_capturing_group(fn_args.input, fn_args.re_pattern,
                                              fn_args.replacement))
    /\ pc' = "returned"
    /\ UNCHANGED <<fn_args, pipeline_vars>>

NextSpan == CallReplaceCapturingGroup

SpecSpan == InitSpan /\ [][NextSpan]_vars

\* ------------------------------------------------------------------------
\* The sorting back of lines 351-366 applied to bounded lists
\* ------------------------------------------------------------------------

\* the longest list that is sorted back
MaxSortLen == 3

SortKeys == 0..2

\* the rows (example id, prediction, answer, context) a sorted list is made of
SortRows ==
    { <<ExampleId("a", "0", Txt_dst), <<Txt_h_pc>>, Txt_h_pc, Ctx_null>>,
      <<ExampleId("a", "0", Txt_api), <<Txt_yes>>, Txt_no, Ctx_gold>>,
      <<ExampleId("a", "0", Txt_api), <<Txt_no>>, Txt_yes, Ctx_gold>> }

SeqsUpTo(S, n) == UNION {[1..m -> S] : m \in 0..n}

\* The state at line 351 after a run of n turns: four lists of n entries,
\* no answers when output_predictions_only is set, and a list of keys of
\* any length.
InitSort ==
    /\ pc = "return"
    /\ exception = None
    /\ output_predictions_only \in BOOLEAN
    /\ original_order \in {None} \cup {Some(keys) : keys \in SeqsUpTo(SortKeys, MaxSortLen)}
    /\ \E rows \in SeqsUpTo(SortRows, MaxSortLen) :
         /\ example_ids = [i \in 1..Len(rows) |-> rows[i][1]]
         /\ predictions = [i \in 1..Len(rows) |-> rows[i][2]]
         /\ answers = IF output_predictions_only THEN <<>>
                      ELSE [i \in 1..Len(rows) |-> rows[i][3]]
         /\ contexts = [i \in 1..Len(rows) |-> rows[i][4]]
    /\ cur_dial_id = <<>>
    /\ dialogue_state = EmptyDict
    /\ new_state_text = Txt_null
    /\ new_knowledge_text = Txt_null
    /\ active_api = None
    /\ bitod_preds = EmptyDict
    /\ input_text = <<>>
    /\ msg = None
    /\ generate_calls = Len(example_ids)
    /\ api_calls = <<>>
    /\ persisted = Some(bitod_preds)
    /\ output = None
    /\ fn_args = [original_order |-> original_order, example_ids |-> example_ids,
                  predictions |-> predictions, answers |-> answers, contexts |-> contexts]
    /\ fn_ret = None

NextSort == Return

SpecSort == InitSort /\ [][NextSort]_vars

\* ------------------------------------------------------------------------
\* The state update of a dst turn (lines 267-282) applied to bounded states
\* ------------------------------------------------------------------------

MergeSlots == {<<"p">>, <<"q">>}

MergeValues == {<<"c">>, <<"d">>}

\* the constraint maps of an API: some of the slots, each with a value
SlotMaps == UNION {[sl -> MergeValues] : sl \in SUBSET MergeSlots}

\* the values of dialogue_state: some of the APIs, each with a constraint map
MergeStates == UNION {[as -> SlotMaps] : as \in SUBSET Range(api_names)}

\* the texts the model generated for the dst turn: 'null', '(h) p=c',
\* '(h) p=d q=d (r) p=c', '(r) q=c', '(h) q=d'
MergeDeltaTexts ==
    { Txt_null, Txt_h_pc, Txt_h_pd_qd_r_pc,
      <<"(", "r", ")", " ", "q", "=", "c">>,
      <<"(", "h", ")", " ", "q", "=", "d">> }

\* The state at line 267 of a dst turn of dialogue a: the model's output is
\* the last prediction and dialogue_state holds what earlier turns left.
InitMerge ==
    /\ pc = "update"
    /\ exception = None
    /\ output_predictions_only = TRUE
    /\ original_order = None
    /\ example_ids = <<ExampleId("a", "1", Txt_dst)>>
    /\ \E generated \in MergeDeltaTexts : predictions = <<<<generated>>>>
    /\ answers = <<>>
    /\ contexts = <<Ctx_gold>>
    /\ cur_dial_id = <<"a">>
    /\ dialogue_state \in MergeStates
    /\ new_state_text = Txt_null
    /\ new_knowledge_text = Txt_null
    /\ active_api = IF dialogue_state = EmptyDict THEN None
                    ELSE Some(CHOOSE a \in DOMAIN dialogue_state : TRUE)
    /\ bitod_preds = (<<"a">> :> NewDialogueReport)
    /\ input_text = replace_capturing_group(Ctx_gold, state_re, Txt_null)
    /\ msg = None
    /\ generate_calls = 1
    /\ api_calls = <<>>
    /\ persisted = None
    /\ output = None
    /\ fn_args = [dialogue_state |-> dialogue_state, active_api |-> active_api]
    /\ fn_ret = None

NextMerge == UpdateTurn

SpecMerge == InitMerge /\ [][NextMerge]_vars

\* ------------------------------------------------------------------------
\* Two runs over the same stream, model outputs and API outcomes that
\* differ only in original_order: the second run starts when the first has
\* left the loop, and is given what the first was given.
\* ------------------------------------------------------------------------

\* the longest turn stream that is run twice
MaxPairedTurns == 2

\* the original_order of the second run: none, or ascending keys
OtherOrders == {None, Some([i \in 1..MaxTurns |-> i])}

IsPrefix(a, b) == Len(a) <= Len(b) /\ SubSeq(b, 1, Len(a)) = a

\* the first run: the lists are returned with the answers and sorted back
\* by descending keys
InitOrder ==
    /\ Init
    /\ ~output_predictions_only
    /\ original_order # None

\* The first run has left the loop, by exhausting the iterator or by an
\* exception; what it was given and what it did is kept in fn_args, and the
\* function is called again with another original_order.
Rerun ==
    /\ fn_args = None
    /\ pc \in {"return", "raised"}
    /\ fn_args' = Some([pc |-> pc, exception |-> exception,
                        original_order |-> original_order,
                        example_ids |-> example_ids, predictions |-> predictions,
                        contexts |-> contexts, answers |-> answers,
                        dialogue_state |-> dialogue_state, active_api |-> active_api,
                        api_calls |-> api_calls, bitod_preds |-> bitod_preds,
                        persisted |-> persisted])
    /\ original_order' \in OtherOrders
    /\ pc' = "next"
    /\ exception' = None
    /\ example_ids' = <<>>
    /\ predictions' = <<>>
    /\ answers' = <<>>
    /\ contexts' = <<>>
    /\ cur_dial_id' = <<>>
    /\ dialogue_state' = EmptyDict
    /\ new_state_text' = Txt_null
    /\ new_knowledge_text' = Txt_null
    /\ active_api' = None
    /\ bitod_preds' = EmptyDict
    /\ input_text' = <<>>
    /\ msg' = None
    /\ generate_calls' = 0
    /\ api_calls' = <<>>
    /\ persisted' = None
    /\ UNCHANGED <<output_predictions_only, output, fn_ret>>

\* The second run is given what the first was given: the iterator yields
\* the same turns and then is exhausted, the model generates the same text
\* for the k-th turn and the k-th API call does what it did in the first run.
SameInputs ==
    fn_args # None
    => /\ IsPrefix(example_ids, fn_args[1].example_ids)
       /\ pc = "return" => example_ids = fn_args[1].example_ids
       /\ \A k \in DOMAIN predictions :
            k <= Len(fn_args[1].predictions) => predictions[k] = fn_args[1].predictions[k]
       /\ \A k \in DOMAIN api_calls :
            k <= Len(fn_args[1].api_calls)
            => api_calls[k].outcome = fn_args[1].api_calls[k].outcome

NextOrder ==
    \/ NextTurn /\ Len(example_ids) < MaxPairedTurns /\ SameInputs'
    \/ GenerateTurn /\ SameInputs'
    \/ UpdateTurn /\ SameInputs'
    \/ Persist /\ SameInputs'
    \/ Rerun

SpecOrder == InitOrder /\ [][NextOrder]_vars

\* ------------------------------------------------------------------------
\* The input of one turn built from contexts with and without the markers
\* (lines 203-265, then 267-346)
\* ------------------------------------------------------------------------

\* contexts with both markers, with the state marker alone, with the
\* knowledge marker alone and with neither
MarkerContexts ==
    { Ctx_null, Ctx_gold,
      state_re \o Txt_h_pc,
      knowledge_re \o Txt_null,
      <<"h", "i">> }

\* The state at line 203 of the second turn of dialogue a, of any sub-task:
\* its id and context are appended, dialogue_state holds what earlier turns
\* left and the state text is 'null' or what an api turn rendered.
InitMarker ==
    /\ pc = "input"
    /\ exception = None
    /\ output_predictions_only = TRUE
    /\ original_order = None
    /\ \E target \in {Txt_dst, Txt_api, Txt_response} :
         example_ids = <<ExampleId("a", "1", target)>>
    /\ predictions = <<>>
    /\ answers = <<>>
    /\ \E context \in MarkerContexts : contexts = <<context>>
    /\ cur_dial_id = <<"a">>
    /\ dialogue_state \in MergeStates
    /\ new_state_text \in {Txt_null, state2span(dialogue_state, required_slots)}
    /\ new_knowledge_text = Txt_null
    /\ active_api = IF dialogue_state = EmptyDict THEN None
                    ELSE Some(CHOOSE a \in DOMAIN dialogue_state : TRUE)
    /\ bitod_preds = (<<"a">> :> NewDialogueReport)
    /\ input_text = <<>>
    /\ msg = None
    /\ generate_calls = 0
    /\ api_calls = <<>>
    /\ persisted = None
    /\ output = None
    /\ fn_args = None
    /\ fn_ret = None

NextMarker == GenerateTurn \/ UpdateTurn

SpecMarker == InitMarker /\ [][NextMarker]_vars

\* ------------------------------------------------------------------------
\* The loop over an iterator that also yields batches of no turn and of two
\* turns (lines 158-349)
\* ------------------------------------------------------------------------

MaxBatches == 2

\* the batches of Dataset, a batch without example and a batch of the first
\* two turns of dialogue a
Batches ==
    Dataset \cup
    { [example_id |-> <<>>, context |-> Ctx_null, answer |-> Txt_null],
      [example_id |-> <<ExampleId("a", "0", Txt_dst), ExampleId("a", "0", Txt_api)>>,
       context |-> Ctx_null, answer |-> Txt_h_pc] }

NextBatch ==
    \/ NextTurnOf(Batches) /\ Len(example_ids) < MaxBatches
    \/ GenerateTurn
    \/ UpdateTurn
    \/ Persist

SpecBatch == Init /\ [][NextBatch]_vars

\* ------------------------------------------------------------------------
\* Properties of replace_capturing_group (under SpecSpan)
\* ------------------------------------------------------------------------

\* number of occurrences of the marker in a text
RECURSIVE occurrences_from(_, _, _)
occurrences_from(text, marker, i) ==
    LET j == str_find(text, marker, i)
    IN  IF j = 0 THEN 0 ELSE 1 + occurrences_from(text, marker, j + 1)

occurrences(text, marker) == occurrences_from(text, marker, 1)

\* C6: for every text in which the marker occurs exactly once, whatever its
\* span holds, and every value v, the span extracted from
\* replace_capturing_group(text, marker_pattern, v) is v.
C6_ReplaceThenExtractReturnsValue ==
    (pc = "returned" /\ occurrences(fn_args.input, fn_args.re_pattern) = 1)
    => LET out == fn_ret[1]
           m == re_search(fn_args.re_pattern, out)
       IN  /\ ~IsRaised(out)
           /\ m # None
           /\ strip(m[1].group1) = fn_args.replacement

\* The text in which only the captured run of the first occurrence of the
\* marker is replaced by v: everything before the run, v, everything after.
OnlyFirstRunReplaced(text, marker, v) ==
    LET m == re_search(marker, text)[1]
        b == m.start + Len(marker)
        lead == Len(m.group1) - Len(lstrip(m.group1))
        core == Len(strip(m.group1))
    IN  SubSeq(text, 1, b + lead - 1) \o v \o SubSeq(text, b + lead + core, Len(text))

\* C7: replace_capturing_group changes only the captured run of the first
\* occurrence of the marker; the marker token, the terminator, the spans of
\* other markers and any later occurrence of the same marker stay as they were.
C7_OnlyFirstCapturedRunChanges ==
    (pc = "returned" /\ occurrences(fn_args.input, fn_args.re_pattern) >= 1)
    => fn_ret[1] = OnlyFirstRunReplaced(fn_args.input, fn_args.re_pattern,
                                        fn_args.replacement)

\* ------------------------------------------------------------------------
\* Properties of the sorting back (under SpecSort)
\* ------------------------------------------------------------------------

\* the (example id, prediction, answer, context) tuples of four parallel lists
Tuples(ids, preds, golds, ctxs) ==
    [i \in 1..Len(ids) |-> <<ids[i], preds[i], golds[i], ctxs[i]>>]

\* the multiset of the elements of a list
BagOf(s) == [x \in Range(s) |-> Cardinality({i \in 1..Len(s) : s[i] = x})]

\* a key is supplied for every turn and the answers were collected
KeyPerTurn ==
    /\ original_order # None
    /\ Len(original_order[1]) >= Len(example_ids)
    /\ Len(answers) = Len(example_ids)

\* C10: sorting back by the supplied keys permutes the per-turn outputs: the
\* multiset of (example id, prediction, answer, context) tuples is the same
\* after as before, the four lists keep their length, and sorting the result
\* again with the keys it was sorted by changes nothing.
C10_SortBackIsPermutation ==
    [][(pc = "return" /\ KeyPerTurn)
       => /\ Len(predictions') = Len(example_ids')
          /\ Len(answers') = Len(example_ids')
          /\ Len(contexts') = Len(example_ids')
          /\ BagOf(Tuples(example_ids', predictions', answers', contexts'))
               = BagOf(Tuples(example_ids, predictions, answers, contexts))
          /\ LET again == sort_back(original_order'[1], example_ids', predictions',
                                    answers', contexts')
             IN  again # None =>
                   /\ again[1].example_ids = example_ids'
                   /\ again[1].predictions = predictions'
                   /\ again[1].answers = answers'
                   /\ again[1].contexts = contexts'
                   /\ again[1].original_order = original_order'[1]]_vars

\* C10 witness: a run returned lists that the sorting back reordered, with
\* two turns under the same key.
C10_Witness ==
    /\ pc = "done"
    /\ original_order # None
    /\ Len(fn_args.answers) = Len(fn_args.example_ids)
    /\ Len(fn_args.original_order[1]) >= Len(fn_args.example_ids)
    /\ Len(example_ids) = MaxSortLen
    /\ example_ids # fn_args.example_ids
    /\ predictions # fn_args.predictions
    /\ \E i, j \in 1..Len(original_order[1]) : i # j /\ original_order[1][i] = original_order[1][j]

\* ------------------------------------------------------------------------
\* Properties of the dialogue pipeline (under Spec)
\* ------------------------------------------------------------------------

\* the dialogue id, turn index and sub-task of the i-th processed turn
DialOf(i) == str_split(example_ids[i], "/")[2]

TurnOf(i) == int(str_split(example_ids[i], "/")[3])[1]

TargetOf(i) == str_split(example_ids[i], "/")[4]

\* every started turn is complete and the lists are in processing order
BetweenTurns == pc \in {"next", "return"}

\* the dialogue id, turn index and sub-task an example id names
ParsedId(id) ==
    LET parts == str_split(id, "/")
    IN  [dial |-> parts[2], turn |-> int(parts[3])[1], target |-> parts[4]]

\* ParsedId of every example id of the dataset, computed once
DatasetParsedIds == [id \in {turn.example_id[1] : turn \in Dataset} |-> ParsedId(id)]

RECURSIVE ParsedIds(_)
ParsedIds(ids) ==
    IF ids = <<>> THEN <<>>
    ELSE <<IF Head(ids) \in DOMAIN DatasetParsedIds
           THEN DatasetParsedIds[Head(ids)] ELSE ParsedId(Head(ids))>>
         \o ParsedIds(Tail(ids))

\* the dialogue id, turn index and sub-task of every processed turn
TurnIds == ParsedIds(example_ids)

\* what every text the model can generate decodes to, computed once
DecodedModelOutputs ==
    [text \in ModelOutputs(Txt_dst) \cup ModelOutputs(Txt_api) \cup ModelOutputs(Txt_response)
        |-> span2state(strip(text), api_names)]

RECURSIVE DecodedUpdates(_)
DecodedUpdates(preds) ==
    IF preds = <<>> THEN <<>>
    ELSE <<IF Head(preds)[1] \in DOMAIN DecodedModelOutputs
           THEN DecodedModelOutputs[Head(preds)[1]]
           ELSE span2state(strip(Head(preds)[1]), api_names)>>
         \o DecodedUpdates(Tail(preds))

\* what every prediction decodes to: the delta and the order of its APIs
TurnUpdates == DecodedUpdates(predictions)

Ascending(t) ==
    \A i, j \in DOMAIN t : (i < j /\ t[i].dial = t[j].dial) => t[i].turn <= t[j].turn

\* each dialogue's turns appear in ascending turn index
AscendingPerDialogue == Ascending(TurnIds)

Contiguous(t) ==
    \A i, j, k \in DOMAIN t : (i < j /\ j < k /\ t[i].dial = t[k].dial) => t[j].dial = t[i].dial

\* the turns of each dialogue are contiguous in the stream
ContiguousDialogues == Contiguous(TurnIds)

\* merge(existing, delta) of the design: an API absent from existing is
\* inserted, a slot of an API present in both takes the delta's value.
MergeDelta(existing, delta) ==
    [a \in DOMAIN existing \cup DOMAIN delta |->
        IF a \notin DOMAIN delta THEN existing[a]
        ELSE IF a \notin DOMAIN existing THEN delta[a]
        ELSE [sl \in DOMAIN existing[a] \cup DOMAIN delta[a] |->
                 IF sl \in DOMAIN delta[a] THEN delta[a][sl] ELSE existing[a][sl]]]

\* the delta the i-th turn's prediction decodes to
DeltaOf(i) == span2state(strip(predictions[i][1]), api_names).val

\* the in-order merge of the dst deltas of dialogue d among the first i turns
RECURSIVE MergedUpTo(_, _, _, _)
MergedUpTo(t, updates, d, i) ==
    IF i = 0 THEN EmptyDict
    ELSE IF t[i].dial = d /\ t[i].target = Txt_dst
         THEN MergeDelta(MergedUpTo(t, updates, d, i - 1), updates[i].val)
         ELSE MergedUpTo(t, updates, d, i - 1)

\* the i-th turn is the last dst turn so far of its dialogue and turn index
LatestDstOfItsIndex(t, i) ==
    /\ t[i].target = Txt_dst
    /\ \A j \in DOMAIN t :
         j > i => ~(t[j].target = Txt_dst /\ t[j].dial = t[i].dial /\ t[j].turn = t[i].turn)

\* the report holds value under key for turn index k of dialogue d
ReportHas(preds, d, k, key, value) ==
    /\ d \in DOMAIN preds
    /\ str(k) \in DOMAIN preds[d].turns
    /\ key \in DOMAIN preds[d].turns[str(k)]
    /\ preds[d].turns[str(k)][key] = value

\* every dst turn has its state in the report, and it is the merge
RecordedStatesAreMerges ==
    LET t == TurnIds
        updates == TurnUpdates
    IN  \A i \in DOMAIN t :
            LatestDstOfItsIndex(t, i)
            => ReportHas(bitod_preds, t[i].dial, t[i].turn, "state",
                         relabel_keys(MergedUpTo(t, updates, t[i].dial, i)))

\* the report holds something under key for turn index k of dialogue d
ReportHasKey(preds, d, k, key) ==
    /\ d \in DOMAIN preds
    /\ str(k) \in DOMAIN preds[d].turns
    /\ key \in DOMAIN preds[d].turns[str(k)]

\* every state the report holds for a dst turn is the merge
RecordedStatesEqualMerges ==
    LET t == TurnIds
        updates == TurnUpdates
    IN  \A i \in DOMAIN t :
            (LatestDstOfItsIndex(t, i) /\ ReportHasKey(bitod_preds, t[i].dial, t[i].turn, "state"))
            => bitod_preds[t[i].dial].turns[str(t[i].turn)]["state"]
                 = relabel_keys(MergedUpTo(t, updates, t[i].dial, i))

\* no example id occurs twice in the stream
DistinctExampleIds ==
    \A i, j \in 1..Len(example_ids) : example_ids[i] = example_ids[j] => i = j

\* C1 as stated: for every stream (of distinct turns) in which each
\* dialogue's turns appear in ascending turn index, contiguous or not, the
\* state recorded for a dst turn is the in-order merge of the dst deltas of
\* its dialogue up to that turn.
C1_RecordedStateIsMergeOfDialogueDeltas ==
    (BetweenTurns /\ DistinctExampleIds /\ AscendingPerDialogue) => RecordedStatesEqualMerges

\* C1 amended: for every stream in which, moreover, the turns of each
\* dialogue are contiguous, every dst turn has its state in the report and
\* the state is that merge.
C1_RecordedStateIsMergeWhenContiguous ==
    (BetweenTurns /\ ContiguousDialogues /\ AscendingPerDialogue) => RecordedStatesAreMerges

\* C1 witness: the second dst turn of a dialogue merged its delta into the
\* state the first one left, one slot overwritten and one kept.
C1_Witness ==
    /\ pc = "next"
    /\ Len(example_ids) = 2
    /\ AscendingPerDialogue /\ ContiguousDialogues
    /\ DialOf(1) = DialOf(2)
    /\ TargetOf(1) = Txt_dst /\ TargetOf(2) = Txt_dst
    /\ TurnOf(2) > TurnOf(1)
    /\ DeltaOf(1) # EmptyDict /\ DeltaOf(2) # EmptyDict /\ DeltaOf(1) # DeltaOf(2)
    /\ <<"h">> \in DOMAIN dialogue_state
    /\ DOMAIN dialogue_state[<<"h">>] = {<<"p">>, <<"q">>}
    /\ dialogue_state[<<"h">>][<<"p">>] = <<"c">>
    /\ RecordedStatesAreMerges

\* the Update step of an api turn
ApiTurnUpdate == pc = "update" /\ TargetOf(Len(example_ids)) = Txt_api

\* the Update step made a call to the Knowledge API
CallMade == Len(api_calls') = Len(api_calls) + 1

\* C2: when the Knowledge API call of an api turn raises, also on the first
\* call of the run, nothing is propagated: the knowledge span becomes the
\* no-item message, the turn's api entry is written and the run goes on.
C2_ApiExceptionIsRecovered ==
    [][(ApiTurnUpdate /\ CallMade /\ Last(api_calls').outcome = ApiRaises)
       => /\ pc' = "next"
          /\ exception' = None
          /\ new_knowledge_text' = no_item_message(active_api[1])
          /\ ReportHas(bitod_preds', DialOf(Len(example_ids)), TurnOf(Len(example_ids)),
                       "api", no_item_message(active_api[1]))]_vars

\* the step of lines 158-201 for a turn that has a predecessor
StartsLaterTurn == pc = "next" /\ pc' = "input" /\ example_ids # <<>>

\* C3: when a turn's dialogue id differs from that of the turn processed
\* before it, DialogueState is empty, ActiveAPI is None and both span texts
\* are 'null' before the turn's input is built; when it is the same, none of
\* the four is changed.
C3_NewDialogueIdResetsSubstate ==
    [][StartsLaterTurn
       => IF str_split(Last(example_ids'), "/")[2] # DialOf(Len(example_ids))
          THEN /\ dialogue_state' = EmptyDict
               /\ active_api' = None
               /\ new_state_text' = Txt_null
               /\ new_knowledge_text' = Txt_null
          ELSE UNCHANGED <<dialogue_state, active_api, new_state_text,
                           new_knowledge_text>>]_vars

\* C3 witness: the input of a turn is about to be built, the turn before it
\* was an api turn of another dialogue that left a knowledge span and a
\* state, and all four are back to their initial values.
C3_Witness ==
    /\ pc = "input"
    /\ Len(example_ids) = 3
    /\ DialOf(3) # DialOf(2)
    /\ TargetOf(2) = Txt_api
    /\ ReportHas(bitod_preds, DialOf(2), TurnOf(2), "api", <<"(", "h", ")", " ", "n", "=", "x">>)
    /\ dialogue_state = EmptyDict
    /\ active_api = None
    /\ new_state_text = Txt_null
    /\ new_knowledge_text = Txt_null

\* the decision of the api turn being updated
Decision == strip(Last(predictions)[1])

\* C4 as stated: in an api turn whose decision is 'no', the knowledge span
\* keeps the value it had before the turn and no call is made.
C4_NoDecisionKeepsKnowledgeSpan ==
    [][(ApiTurnUpdate /\ Decision = Txt_no)
       => /\ new_knowledge_text' = new_knowledge_text
          /\ api_calls' = api_calls]_vars

\* C4 amended: in an api turn whose decision is 'no', the knowledge span is
\* 'null' after the turn, whatever it was before, and no call is made.
C4_NoDecisionResetsKnowledgeSpan ==
    [][(ApiTurnUpdate /\ Decision = Txt_no)
       => /\ pc' = "next"
          /\ new_knowledge_text' = Txt_null
          /\ api_calls' = api_calls]_vars

\* C4 witness: an api turn decided 'no' after an earlier api turn of the
\* same dialogue had left the span of a returned item.
C4_Witness ==
    /\ pc = "next"
    /\ Len(example_ids) = 3
    /\ TargetOf(3) = Txt_api
    /\ strip(predictions[3][1]) = Txt_no
    /\ TargetOf(2) = Txt_api
    /\ DialOf(2) = DialOf(3) /\ TurnOf(2) # TurnOf(3)
    /\ ReportHas(bitod_preds, DialOf(2), TurnOf(2), "api", <<"(", "h", ")", " ", "n", "=", "x">>)
    /\ new_knowledge_text = Txt_null

\* C5 as stated: an api turn processed while ActiveAPI is unset is surfaced
\* as an error, whatever the decision.
C5_ApiTurnWithoutActiveApiIsError ==
    [][(ApiTurnUpdate /\ active_api = None) => pc' = "raised"]_vars

\* C5 amended: an api turn processed while ActiveAPI is unset raises no
\* error, whatever the decision: no call is made, the knowledge span and the
\* turn's api entry are 'null' and the run goes on.
C5_ApiTurnWithoutActiveApiMakesNoCall ==
    [][(ApiTurnUpdate /\ active_api = None)
       => /\ pc' = "next"
          /\ exception' = None
          /\ api_calls' = api_calls
          /\ new_knowledge_text' = Txt_null
          /\ ReportHas(bitod_preds', DialOf(Len(example_ids)), TurnOf(Len(example_ids)),
                       "api", Txt_null)]_vars

\* C5 witness: an api turn decided 'yes' in a dialogue whose only dst turn
\* touched no API, and the run went on without a call.
C5_Witness ==
    /\ pc = "next"
    /\ Len(example_ids) = 2
    /\ DialOf(1) = DialOf(2)
    /\ TargetOf(1) = Txt_dst
    /\ TargetOf(2) = Txt_api
    /\ strip(predictions[2][1]) = Txt_yes
    /\ active_api = None
    /\ api_calls = <<>>
    /\ ReportHas(bitod_preds, DialOf(2), TurnOf(2), "api", Txt_null)

\* the call of this step returned, with a count of at most 0
CallReturnedNoItem ==
    /\ CallMade
    /\ Last(api_calls').outcome # ApiRaises
    /\ Last(api_calls').outcome[2] <= 0

\* C8: when the call of an api turn returns a count <= 0, the knowledge span
\* becomes the no-item message of the API and no exception escapes, whatever
\* gold state the turn's context holds.
C8_ZeroResultGivesNoItemMessage ==
    [][(ApiTurnUpdate /\ CallReturnedNoItem)
       => /\ pc' = "next"
          /\ exception' = None
          /\ new_knowledge_text' = no_item_message(active_api[1])
          /\ UNCHANGED <<dialogue_state, active_api>>]_vars

\* C9: after every api turn in which a call was attempted, the API map of
\* the dialogue's report holds the attempted constraints under the relabeled
\* API name, whether the call returned items, none, or raised.
C9_AttemptedConstraintsAreRecorded ==
    [][(ApiTurnUpdate /\ CallMade)
       => LET d == DialOf(Len(example_ids))
              name == relabel(active_api[1])
          IN  /\ d \in DOMAIN bitod_preds'
              /\ name \in DOMAIN bitod_preds'[d].API
              /\ bitod_preds'[d].API[name] = state2constraints(dialogue_state[active_api[1]])]_vars

\* every value the report holds for a (dialogue id, turn index, key) is
\* still there, unchanged, after the step
ReportEntriesKept ==
    \A d \in DOMAIN bitod_preds :
        \A k \in DOMAIN bitod_preds[d].turns :
            \A key \in DOMAIN bitod_preds[d].turns[k] :
                /\ d \in DOMAIN bitod_preds'
                /\ k \in DOMAIN bitod_preds'[d].turns
                /\ key \in DOMAIN bitod_preds'[d].turns[k]
                /\ bitod_preds'[d].turns[k][key] = bitod_preds[d].turns[k][key]

\* C11 as stated: in every stream (of distinct turns, ascending in each
\* dialogue, contiguous or not) no step of a later turn changes or removes a
\* value the report holds for a (dialogue id, turn index, sub-task key).
C11_ReportEntriesAreNeverChanged ==
    [][ReportEntriesKept \/ ~(DistinctExampleIds' /\ Ascending(ParsedIds(example_ids')))]_vars

\* C11 amended: in every stream of distinct turns in which the turns of each
\* dialogue are contiguous, no step changes or removes a value the report
\* holds for a (dialogue id, turn index, sub-task key).
C11_ReportEntriesAreKeptWhenContiguous ==
    [][ReportEntriesKept \/ ~(DistinctExampleIds' /\ Contiguous(ParsedIds(example_ids')))]_vars

\* C11 witness: the state and the api entry of turn 0 of one dialogue are in
\* the report, side by side, after a dst turn of another dialogue was
\* processed and recorded.
C11_Witness ==
    /\ pc = "next"
    /\ Len(example_ids) = 3
    /\ DistinctExampleIds /\ ContiguousDialogues
    /\ DialOf(1) = DialOf(2) /\ DialOf(3) # DialOf(1)
    /\ TurnOf(1) = TurnOf(2)
    /\ TargetOf(1) = Txt_dst /\ TargetOf(2) = Txt_api /\ TargetOf(3) = Txt_dst
    /\ DeltaOf(1) # EmptyDict
    /\ ReportHas(bitod_preds, DialOf(1), TurnOf(1), "state", relabel_keys(DeltaOf(1)))
    /\ ReportHasKey(bitod_preds, DialOf(2), TurnOf(2), "api")
    /\ ReportHasKey(bitod_preds, DialOf(3), TurnOf(3), "state")

\* the sub-task of the last turn of the stream is none of dst, api, response
UnknownSubTask(ids) ==
    /\ ids # <<>>
    /\ str_split(Last(ids), "/")[4] \notin {Txt_dst, Txt_api, Txt_response}

\* a step of a turn of an unrecognized sub-task stops the run where the
\* input would be built, without a call of the model, a prediction or a
\* written report
UnknownSubTaskIsFatal ==
    /\ pc' \in {"input", "raised"}
    /\ pc = "input" => (pc' = "raised" /\ exception' = Some("ValueError"))
    /\ generate_calls' = generate_calls
    /\ predictions' = predictions
    /\ persisted' = None

\* no step is taken after an exception has escaped
NothingAfterRaise == pc # "raised"

\* C12 as stated: a turn whose sub-task is none of dst, api, response is
\* fatal; the model is not invoked for it, no step of the turn modifies
\* DialogueState or the report, and no later turn is processed.
C12_UnknownSubTaskModifiesNothing ==
    [][/\ NothingAfterRaise
       /\ UnknownSubTask(example_ids')
          => /\ UnknownSubTaskIsFatal
             /\ UNCHANGED <<dialogue_state, bitod_preds>>]_vars

\* C12 amended: such a turn is fatal, the model is not invoked for it,
\* nothing is persisted and no later turn is processed; DialogueState and
\* the report are left as they were when the turn continues the dialogue of
\* the turn before it, and are the empty state and the report with a fresh
\* entry for the turn's dialogue id when it starts another dialogue.
C12_UnknownSubTaskIsFatalAfterReset ==
    [][/\ NothingAfterRaise
       /\ UnknownSubTask(example_ids')
          => /\ UnknownSubTaskIsFatal
             /\ LET d == str_split(Last(example_ids'), "/")[2]
                IN  IF pc = "next" /\ d # cur_dial_id
                    THEN /\ dialogue_state' = EmptyDict
                         /\ active_api' = None
                         /\ bitod_preds' = dict_set(bitod_preds, d, NewDialogueReport)
                    ELSE UNCHANGED <<dialogue_state, active_api, bitod_preds>>]_vars

\* C12 witness: the run stopped at a turn of sub-task 'x' that started
\* another dialogue after a dst turn; the model was called for the dst turn
\* alone and the state of the dst turn is gone.
C12_Witness ==
    /\ pc = "raised"
    /\ exception = Some("ValueError")
    /\ Len(example_ids) = 2
    /\ TargetOf(1) = Txt_dst
    /\ DeltaOf(1) # EmptyDict
    /\ UnknownSubTask(example_ids)
    /\ generate_calls = 1
    /\ Len(predictions) = 1
    /\ dialogue_state = EmptyDict
    /\ DialOf(2) \in DOMAIN bitod_preds
    /\ bitod_preds[DialOf(2)] = NewDialogueReport
    /\ persisted = None

\* What an api turn decided 'no' does: no call, no error, DialogueState and
\* ActiveAPI as they were, the knowledge span 'null', and 'null' written as
\* the turn's api entry, nothing else of the report touched.
EffectsOfNoDecision ==
    /\ pc' = "next"
    /\ exception' = None
    /\ api_calls' = api_calls
    /\ msg' = msg
    /\ UNCHANGED <<dialogue_state, active_api, new_state_text>>
    /\ new_knowledge_text' = Txt_null
    /\ bitod_preds' = set_turn_entry(bitod_preds, DialOf(Len(example_ids)),
                                     str(TurnOf(Len(example_ids))), "api", Txt_null)

\* C13: in an api turn whose decision is neither 'yes' nor 'no' the turn is
\* not fatal, and the step changes DialogueState, ActiveAPI, the knowledge
\* span, the report and the calls made exactly as the step of a 'no'
\* decision does from the same state.
C13_OtherDecisionActsAsNo ==
    [][(ApiTurnUpdate /\ Decision # Txt_yes) => EffectsOfNoDecision]_vars

\* C13 witness: an api turn decided 'm' while ActiveAPI named an API of the
\* state, so that 'yes' would have made a call; none was made and the api
\* entry is 'null'.
C13_Witness ==
    /\ pc = "next"
    /\ Len(example_ids) = 2
    /\ DialOf(1) = DialOf(2)
    /\ TargetOf(1) = Txt_dst
    /\ TargetOf(2) = Txt_api
    /\ strip(predictions[2][1]) = <<"m">>
    /\ active_api # None
    /\ active_api[1] \in DOMAIN dialogue_state
    /\ api_calls = <<>>
    /\ new_knowledge_text = Txt_null
    /\ ReportHas(bitod_preds, DialOf(2), TurnOf(2), "api", Txt_null)

\* ------------------------------------------------------------------------
\* Properties of the state update of a dst turn (under SpecMerge)
\* ------------------------------------------------------------------------

\* the Update step of a dst turn
DstTurnUpdate == pc = "update" /\ TargetOf(Len(example_ids)) = Txt_dst

\* the delta the turn being updated decodes to, and the order of its APIs
TurnDelta == span2state(strip(Last(predictions)[1]), api_names)

\* C14: the merge of a dst delta inserts every API absent from the state
\* with the delta's constraint map; in an API already present it overwrites
\* exactly the slots the delta names with the delta's values; APIs and slots
\* the delta does not name are unchanged, so an empty delta changes nothing.
C14_MergeInsertsAndOverwritesNamedSlots ==
    [][DstTurnUpdate
       => LET S == dialogue_state
              T == dialogue_state'
              D == TurnDelta.val
          IN  /\ DOMAIN T = DOMAIN S \cup DOMAIN D
              /\ \A a \in DOMAIN D \ DOMAIN S : T[a] = D[a]
              /\ \A a \in DOMAIN S \ DOMAIN D : T[a] = S[a]
              /\ \A a \in DOMAIN D \cap DOMAIN S :
                   /\ DOMAIN T[a] = DOMAIN S[a] \cup DOMAIN D[a]
                   /\ \A sl \in DOMAIN D[a] : T[a][sl] = D[a][sl]
                   /\ \A sl \in DOMAIN S[a] \ DOMAIN D[a] : T[a][sl] = S[a][sl]
              /\ D = EmptyDict => T = S]_vars

\* C14 witness: a delta for two APIs was merged into a state that held one
\* of them; a slot of that API was overwritten, another was kept and the
\* other API was inserted.
C14_Witness ==
    /\ pc = "next"
    /\ fn_args.dialogue_state = (<<"h">> :> (<<"p">> :> <<"c">> @@ <<"q">> :> <<"c">>))
    /\ Last(predictions) = <<Txt_h_pd_qd_r_pc>>
    /\ dialogue_state = (<<"h">> :> (<<"p">> :> <<"d">> @@ <<"q">> :> <<"d">>)
                         @@ <<"r">> :> (<<"p">> :> <<"c">>))

\* C15: applying the delta of a dst turn once more to the state the turn
\* left gives that state again: merge(merge(S, D), D) = merge(S, D).
C15_MergeIsIdempotent ==
    [][DstTurnUpdate
       => apply_state_update(TurnDelta.keys, TurnDelta.val, dialogue_state',
                             active_api').dialogue_state = dialogue_state']_vars

\* C15 witness: a delta was merged into a state in which it overwrote a
\* value, and merging it again changes nothing.
C15_Witness ==
    /\ pc = "next"
    /\ fn_args.dialogue_state = (<<"h">> :> (<<"p">> :> <<"d">>) @@ <<"r">> :> (<<"q">> :> <<"d">>))
    /\ Last(predictions) = <<Txt_h_pc>>
    /\ dialogue_state # fn_args.dialogue_state
    /\ apply_state_update(TurnDelta.keys, TurnDelta.val, dialogue_state,
                          active_api).dialogue_state = dialogue_state

\* ------------------------------------------------------------------------
\* Scope of the per-dialogue state (under Spec)
\* ------------------------------------------------------------------------

\* the first turn of the run of turns of one dialogue id that ends the stream
SegmentStart(t) ==
    CHOOSE s \in DOMAIN t :
        /\ \A j \in s..Len(t) : t[j].dial = t[Len(t)].dial
        /\ s = 1 \/ t[s - 1].dial # t[Len(t)].dial

\* the in-order merge of the deltas of the dst turns s..i
RECURSIVE MergedFrom(_, _, _, _)
MergedFrom(t, updates, s, i) ==
    IF i < s THEN EmptyDict
    ELSE IF t[i].target = Txt_dst
         THEN MergeDelta(MergedFrom(t, updates, s, i - 1), updates[i].val)
         ELSE MergedFrom(t, updates, s, i - 1)

\* the API named last by the latest of the dst turns s..i that named one
RECURSIVE ActiveFrom(_, _, _, _)
ActiveFrom(t, updates, s, i) ==
    IF i < s THEN None
    ELSE IF t[i].target = Txt_dst /\ updates[i].keys # <<>>
         THEN Some(Last(updates[i].keys))
         ELSE ActiveFrom(t, updates, s, i - 1)

\* the latest api turn among the turns s..i, 0 when there is none
RECURSIVE LatestApiTurn(_, _, _)
LatestApiTurn(t, s, i) ==
    IF i < s THEN 0
    ELSE IF t[i].target = Txt_api THEN i
    ELSE LatestApiTurn(t, s, i - 1)

\* C16: while a turn of dialogue d is processed, in any interleaving of
\* dialogues, DialogueState is the merge of the deltas of the dst turns of d
\* processed since the stream last entered d, and ActiveAPI is the API the
\* latest of them named (unset when none did); the knowledge span is 'null'
\* or what the latest api turn of d among them recorded.  Nothing that a
\* turn of another dialogue produced is in any of them.
C16_StateHoldsOnlyItsOwnDialogue ==
    (pc \in {"input", "update", "next", "return", "raised"} /\ example_ids # <<>>)
    => LET t == TurnIds
           updates == TurnUpdates
           s == SegmentStart(t)
           merged == IF pc \in {"next", "return"} THEN Len(t) ELSE Len(t) - 1
           api == LatestApiTurn(t, s, merged)
       IN  /\ cur_dial_id = t[Len(t)].dial
           /\ dialogue_state = MergedFrom(t, updates, s, merged)
           /\ active_api = ActiveFrom(t, updates, s, merged)
           /\ pc # "raised"
              => new_knowledge_text =
                   IF api = 0 THEN Txt_null
                   ELSE bitod_preds[t[api].dial].turns[str(t[api].turn)]["api"]

\* C16 witness: the stream went from dialogue a to b and back to a, every
\* turn a dst turn with a different non-empty delta, and the state after the
\* third turn is the third delta alone.
C16_Witness ==
    /\ pc = "next"
    /\ Len(example_ids) = 3
    /\ DialOf(1) = DialOf(3) /\ DialOf(2) # DialOf(1)
    /\ TargetOf(1) = Txt_dst /\ TargetOf(2) = Txt_dst /\ TargetOf(3) = Txt_dst
    /\ DeltaOf(1) # EmptyDict /\ DeltaOf(2) # EmptyDict /\ DeltaOf(3) # EmptyDict
    /\ DeltaOf(1) # DeltaOf(3) /\ DeltaOf(2) # DeltaOf(3)
    /\ dialogue_state = DeltaOf(3)

\* ------------------------------------------------------------------------
\* What a turn writes into the report (under Spec)
\* ------------------------------------------------------------------------

\* the report key of a sub-task
KeyOfSubTask(target) ==
    IF target = Txt_dst THEN "state" ELSE IF target = Txt_api THEN "api" ELSE "response"

\* the entry the report holds for turn index k of dialogue d, {} when none
TurnEntry(preds, d, k) ==
    IF d \in DOMAIN preds /\ k \in DOMAIN preds[d].turns THEN preds[d].turns[k] ELSE EmptyDict

\* the step wrote key, and nothing else, into the entry of turn k of dialogue d
WritesOneKey(d, k, key) ==
    /\ DOMAIN bitod_preds' = DOMAIN bitod_preds
    /\ DOMAIN bitod_preds'[d].turns = DOMAIN bitod_preds[d].turns \cup {k}
    /\ DOMAIN TurnEntry(bitod_preds', d, k) = DOMAIN TurnEntry(bitod_preds, d, k) \cup {key}
    /\ \A other \in DOMAIN TurnEntry(bitod_preds, d, k) \ {key} :
         bitod_preds'[d].turns[k][other] = bitod_preds[d].turns[k][other]
    /\ \A e \in DOMAIN bitod_preds :
         \A j \in DOMAIN bitod_preds[e].turns :
             (e # d \/ j # k) => bitod_preds'[e].turns[j] = bitod_preds[e].turns[j]

\* C17: the Update step of every turn writes exactly one key into the report
\* entry of the turn's dialogue and turn index, state for a dst turn, api
\* for an api turn (with or without a call) and response for a response
\* turn, and touches the entry of no other turn index.
C17_EachTurnWritesItsOneKey ==
    [][pc = "update"
       => LET turn == ParsedId(Last(example_ids))
          IN  WritesOneKey(turn.dial, str(turn.turn), KeyOfSubTask(turn.target))]_vars

\* ------------------------------------------------------------------------
\* Order of the sorting back (under SpecSort)
\* ------------------------------------------------------------------------

\* the (key, example id, prediction, answer, context) rows of parallel lists
KeyedRows(order, ids, preds, golds, ctxs) ==
    [i \in 1..Len(ids) |-> <<order[i], ids[i], preds[i], golds[i], ctxs[i]>>]

\* a stable sort by the key alone: a row goes after the rows of equal key
RECURSIVE InsertByKey(_, _)
InsertByKey(x, s) ==
    IF s = <<>> THEN <<x>>
    ELSE IF x[1] < Head(s)[1] THEN <<x>> \o s
    ELSE <<Head(s)>> \o InsertByKey(x, Tail(s))

RECURSIVE StableByKeyFrom(_, _)
StableByKeyFrom(s, acc) ==
    IF s = <<>> THEN acc ELSE StableByKeyFrom(Tail(s), InsertByKey(Head(s), acc))

StableByKey(s) == StableByKeyFrom(s, <<>>)

\* row a comes before row b: by key, then by example id, prediction, answer
\* and context, each in the order of its type
RowPrecedes(a, b) ==
    \/ a[1] < b[1]
    \/ a[1] = b[1] /\ str_lt(a[2], b[2])
    \/ a[1] = b[1] /\ a[2] = b[2] /\ list_lt(a[3], b[3])
    \/ a[1] = b[1] /\ a[2] = b[2] /\ a[3] = b[3] /\ str_lt(a[4], b[4])
    \/ a[1] = b[1] /\ a[2] = b[2] /\ a[3] = b[3] /\ a[4] = b[4] /\ str_lt(a[5], b[5])

\* the rows before and after the step
RowsBefore ==
    KeyedRows(original_order[1], example_ids, predictions, answers, contexts)

RowsAfter ==
    KeyedRows(original_order'[1], example_ids', predictions', answers', contexts')

\* C18 as stated: with a key for every turn, the lists are ordered by
\* ascending key with one permutation, and turns of equal key keep their
\* processing order.
C18_SortBackIsStableOnKey ==
    [][(pc = "return" /\ KeyPerTurn) => RowsAfter = StableByKey(RowsBefore)]_vars

\* C18 amended: with a key for every turn of a stream that is not empty,
\* the lists are ordered by ascending key with one permutation, and turns of
\* equal key are ordered by example id, then prediction, answer and context.
C18_SortBackOrdersByKeyThenRow ==
    [][(pc = "return" /\ KeyPerTurn /\ example_ids # <<>>)
       => /\ pc' = "done"
          /\ Len(original_order'[1]) = Len(example_ids')
          /\ BagOf(RowsAfter) = BagOf(RowsBefore)
          /\ \A i, j \in 1..Len(example_ids') :
               i < j => /\ original_order'[1][i] <= original_order'[1][j]
                        /\ ~RowPrecedes(RowsAfter[j], RowsAfter[i])]_vars

\* C18 witness: two turns had the same key and came back in the order of
\* their example ids, the reverse of their processing order.
C18_Witness ==
    /\ pc = "done"
    /\ Len(fn_args.example_ids) = 2
    /\ Len(fn_args.answers) = 2
    /\ fn_args.original_order # None
    /\ Len(fn_args.original_order[1]) >= 2
    /\ fn_args.original_order[1][1] = fn_args.original_order[1][2]
    /\ example_ids = <<fn_args.example_ids[2], fn_args.example_ids[1]>>
    /\ predictions = <<fn_args.predictions[2], fn_args.predictions[1]>>
    /\ answers = <<fn_args.answers[2], fn_args.answers[1]>>
    /\ example_ids[1] # example_ids[2]

\* ------------------------------------------------------------------------
\* Persistence of the report (under Spec)
\* ------------------------------------------------------------------------

\* C19: the report is written once, by the step that follows the last turn
\* of the stream, and it is the report as the turns built it; nothing is
\* written while a turn is in progress, no turn is processed and nothing is
\* written again after it, a run that returns has written it, and a run
\* that aborts while the stream is processed has written nothing.
C19_ReportIsPersistedOnceAfterTheStream ==
    [][/\ persisted' # persisted
          => /\ pc = "next" /\ pc' = "return"
             /\ persisted = None
             /\ persisted' = Some(bitod_preds)
       /\ persisted # None
          => /\ persisted' = persisted
             /\ pc' \in {"done", "raised"}
             /\ UNCHANGED <<bitod_preds, generate_calls, api_calls>>
             /\ Len(example_ids') = Len(example_ids)
       /\ pc' \in {"input", "update"} => persisted' = None
       /\ (pc \in {"next", "input", "update"} /\ pc' = "raised") => persisted' = None
       /\ pc' = "done" => persisted' # None]_vars

\* C19 witness: a run of three turns of two dialogues returned, and the
\* report written holds the entries of all three.
C19_Witness ==
    /\ pc = "done"
    /\ Len(example_ids) = 3
    /\ generate_calls = 3
    /\ persisted = Some(bitod_preds)
    /\ Cardinality(DOMAIN bitod_preds) = 2
    /\ \A i \in 1..3 : ReportHasKey(persisted[1], DialOf(i), TurnOf(i), KeyOfSubTask(TargetOf(i)))

\* ------------------------------------------------------------------------
\* The end-to-end scenario of one dialogue (under Spec)
\* ------------------------------------------------------------------------

\* {h: {p: c}}
State_h_pc == (<<"h">> :> (<<"p">> :> <<"c">>))

\* The response turn of the scenario is about to be interpreted: the stream
\* is a dst turn whose output decodes to {h: {p: c}}, an api turn decided
\* 'yes' whose call returned a count of 2, and a response turn, all of one
\* dialogue.
ScenarioAtResponseTurn ==
    /\ pc = "update"
    /\ Len(example_ids) = 3
    /\ DialOf(1) = DialOf(2) /\ DialOf(2) = DialOf(3)
    /\ TargetOf(1) = Txt_dst /\ TargetOf(2) = Txt_api /\ TargetOf(3) = Txt_response
    /\ DeltaOf(1) = State_h_pc
    /\ strip(predictions[2][1]) = Txt_yes
    /\ Len(api_calls) = 1
    /\ api_calls[1].outcome # ApiRaises
    /\ api_calls[1].outcome[2] = 2

\* what the dst and the api turn of the scenario left: the state and
\* ActiveAPI of the delta, the span of the top item as the knowledge span
\* and the api entry, the constraints of the state under the reporting name
\* of the API, and the call made with them
ScenarioAfterApiTurn ==
    LET d == DialOf(1)
        top == api_calls[1].outcome[1]
    IN  /\ dialogue_state = State_h_pc
        /\ active_api = Some(<<"h">>)
        /\ ReportHas(bitod_preds, d, TurnOf(1), "state", (<<"H">> :> State_h_pc[<<"h">>]))
        /\ api_calls[1].api_name = <<"H">>
        /\ api_calls[1].constraints = <<state2constraints(State_h_pc[<<"h">>])>>
        /\ new_knowledge_text = knowledge2span(<<"h">> :> top)
        /\ ReportHas(bitod_preds, d, TurnOf(2), "api", knowledge2span(<<"h">> :> top))
        /\ bitod_preds[d].API = (<<"H">> :> state2constraints(State_h_pc[<<"h">>]))

\* the response turn changes nothing but its own entry
ResponseTurnChangesNoState ==
    /\ pc' = "next"
    /\ UNCHANGED <<dialogue_state, active_api, new_state_text, new_knowledge_text,
                   api_calls, generate_calls>>
    /\ bitod_preds'[DialOf(3)].API = bitod_preds[DialOf(3)].API

\* C20 as stated: in the scenario the dst and api turns leave the state,
\* ActiveAPI, knowledge span and API record described, and the response turn
\* records the model's output string as its response and changes no state.
C20_ScenarioRecordsResponseString ==
    [][ScenarioAtResponseTurn
       => /\ ScenarioAfterApiTurn
          /\ ResponseTurnChangesNoState
          /\ ReportHas(bitod_preds', DialOf(3), TurnOf(3), "response",
                       Last(predictions)[1])]_vars

\* C20 amended: the same, the response recorded being the list that holds
\* the model's output string.
C20_ScenarioRecordsResponseList ==
    [][ScenarioAtResponseTurn
       => /\ ScenarioAfterApiTurn
          /\ ResponseTurnChangesNoState
          /\ ReportHas(bitod_preds', DialOf(3), TurnOf(3), "response",
                       <<Last(predictions)[1]>>)]_vars

\* C20 witness: the scenario ran to the end of its response turn.
C20_Witness ==
    /\ pc = "next"
    /\ Len(example_ids) = 3
    /\ DialOf(1) = DialOf(2) /\ DialOf(2) = DialOf(3)
    /\ TargetOf(1) = Txt_dst /\ TargetOf(2) = Txt_api /\ TargetOf(3) = Txt_response
    /\ DeltaOf(1) = State_h_pc
    /\ strip(predictions[2][1]) = Txt_yes
    /\ Len(api_calls) = 1
    /\ api_calls[1].outcome # ApiRaises
    /\ api_calls[1].outcome[2] = 2
    /\ dialogue_state = State_h_pc
    /\ new_knowledge_text = <<"(", "h", ")", " ", "n", "=", "x">>
    /\ ReportHas(bitod_preds, DialOf(3), TurnOf(3), "response", <<<<"h", "i">>>>)

\* ------------------------------------------------------------------------
\* The model input of a turn (under Spec)
\* ------------------------------------------------------------------------

\* the model has generated for a turn of the given sub-task and the output
\* is not interpreted yet: input_text is the input of that turn
GeneratedFor(target) == pc = "update" /\ Last(TurnIds).target = target

\* a context with both spans replaced
WithSpans(context, state_text, knowledge_text) ==
    replace_capturing_group(replace_capturing_group(context, state_re, state_text),
                            knowledge_re, knowledge_text)

\* a context with its state span replaced
WithStateSpan(context, state_text) == replace_capturing_group(context, state_re, state_text)

\* what the api turn i recorded as its outcome, 'null' when i is 0
OutcomeOfApiTurn(t, i) ==
    IF i = 0 THEN Txt_null ELSE bitod_preds[t[i].dial].turns[str(t[i].turn)]["api"]

\* C21 as stated: in a response turn, after any sequence of turns of the
\* dialogue, the model input is the context with its state span replaced by
\* the encoding of the current DialogueState and its knowledge span replaced
\* by the outcome of the most recent api turn of the dialogue.
C21_ResponseInputHasCurrentState ==
    GeneratedFor(Txt_response)
    => LET t == TurnIds
           api == LatestApiTurn(t, SegmentStart(t), Len(t) - 1)
       IN  input_text = WithSpans(Last(contexts),
                                  state2span(dialogue_state, required_slots),
                                  OutcomeOfApiTurn(t, api))

\* C21 amended: in a response turn the model input is the context with its
\* state span replaced by the encoding of the DialogueState as it was at the
\* latest api turn since the stream entered the dialogue ('null' when there
\* is none) and its knowledge span replaced by the outcome of that api turn
\* ('null' when there is none).
C21_ResponseInputHasStateOfLatestApiTurn ==
    GeneratedFor(Txt_response)
    => LET t == TurnIds
           s == SegmentStart(t)
           api == LatestApiTurn(t, s, Len(t) - 1)
       IN  input_text = WithSpans(Last(contexts),
                                  IF api = 0 THEN Txt_null
                                  ELSE state2span(MergedFrom(t, TurnUpdates, s, api),
                                                  required_slots),
                                  OutcomeOfApiTurn(t, api))

\* C21 witness: the input of a response turn was built after a dst turn that
\* filled the state and an api turn whose call returned an item.
C21_Witness ==
    /\ GeneratedFor(Txt_response)
    /\ Len(example_ids) = 3
    /\ TurnIds[1].target = Txt_dst /\ TurnIds[2].target = Txt_api
    /\ dialogue_state # EmptyDict
    /\ Len(api_calls) = 1 /\ api_calls[1].outcome # ApiRaises /\ api_calls[1].outcome[2] > 0
    /\ input_text = WithSpans(Last(contexts), Txt_h_pc, new_knowledge_text)
    /\ new_knowledge_text # Txt_null

\* the state text a turn that is not an api turn substitutes, replayed from
\* the stream t and the decoded outputs of its earlier turns: the encoding of
\* the state merged up to the latest api turn since the stream entered the
\* dialogue, 'null' when there is none
StateTextBefore(t, updates) ==
    LET s == SegmentStart(t)
        api == LatestApiTurn(t, s, Len(t) - 1)
    IN  IF api = 0 THEN Txt_null
        ELSE state2span(MergedFrom(t, updates, s, api), required_slots)

\* what the model can have generated in a dst turn, decoded
DstUpdates == {DecodedModelOutputs[text] : text \in ModelOutputs(Txt_dst)}

\* C22 as stated: in a dst turn the model input is the context with its
\* state span replaced by the state text of the previous turn of the
\* dialogue ('null' for the first), and that text is the same whatever the
\* model generated in the earlier turns.
C22_DstInputIndependentOfPredictions ==
    GeneratedFor(Txt_dst)
    => LET t == TurnIds
       IN  \A other \in [1..(Len(t) - 1) -> DstUpdates] :
               input_text = WithStateSpan(Last(contexts), StateTextBefore(t, other))

\* C22 amended: in a dst turn the model input is the context with its state
\* span replaced by the state text of the latest api turn since the stream
\* entered the dialogue ('null' when there is none), which encodes the
\* DialogueState merged from the model's own dst outputs up to that turn.
C22_DstInputHasPredictedStateOfLatestApiTurn ==
    GeneratedFor(Txt_dst)
    => input_text = WithStateSpan(Last(contexts), StateTextBefore(TurnIds, TurnUpdates))

\* C22 witness: the input of the second dst turn of a dialogue carries the
\* state the model predicted in the first, rendered by the api turn between.
C22_Witness ==
    /\ GeneratedFor(Txt_dst)
    /\ Len(example_ids) = 3
    /\ TurnIds[1].target = Txt_dst /\ TurnIds[2].target = Txt_api
    /\ TurnIds[1].dial = TurnIds[3].dial /\ TurnIds[2].dial = TurnIds[3].dial
    /\ predictions[1] = <<Txt_h_pc>>
    /\ input_text = WithStateSpan(Last(contexts), Txt_h_pc)
    /\ input_text # WithStateSpan(Last(contexts), Txt_null)

\* C23: in an api turn the model input is the context with its state span
\* replaced by the encoding of DialogueState as it is at that moment, the
\* merge of the dst deltas processed since the stream entered the dialogue,
\* and not by the state text an earlier turn used.
C23_ApiInputHasCurrentState ==
    GeneratedFor(Txt_api)
    => LET t == TurnIds
           merged == MergedFrom(t, TurnUpdates, SegmentStart(t), Len(t) - 1)
       IN  /\ dialogue_state = merged
           /\ input_text = WithStateSpan(Last(contexts), state2span(merged, required_slots))
           /\ new_state_text = state2span(merged, required_slots)

\* C23 witness: the input of an api turn carries the merge of the two dst
\* deltas before it, while the dst turns themselves were given 'null'.
C23_Witness ==
    /\ GeneratedFor(Txt_api)
    /\ Len(example_ids) = 3
    /\ TurnIds[1].target = Txt_dst /\ TurnIds[2].target = Txt_dst
    /\ TurnIds[1].dial = TurnIds[3].dial /\ TurnIds[2].dial = TurnIds[3].dial
    /\ predictions[1] = <<Txt_h_pc>> /\ predictions[2] = <<Txt_h_pd_qd_r_pc>>
    /\ input_text = WithStateSpan(Last(contexts), Txt_h_pd_qd_r_pc)
    /\ input_text # WithStateSpan(Last(contexts), Txt_null)

\* ------------------------------------------------------------------------
\* Calls of the Knowledge API (under Spec)
\* ------------------------------------------------------------------------

\* the turn whose output is being interpreted is an api turn that decided
\* 'yes' while ActiveAPI has an entry in DialogueState
CallIsDue ==
    /\ Last(TurnIds).target = Txt_api
    /\ Decision = Txt_yes
    /\ active_api # None
    /\ active_api[1] \in DOMAIN dialogue_state

\* the step made exactly one call, for ActiveAPI under its reporting name,
\* with the constraints of ActiveAPI in DialogueState
OneCallForActiveApi ==
    /\ Len(api_calls') = Len(api_calls) + 1
    /\ SubSeq(api_calls', 1, Len(api_calls)) = api_calls
    /\ Last(api_calls').api_name = relabel(active_api[1])
    /\ Last(api_calls').constraints = <<state2constraints(dialogue_state[active_api[1]])>>
    /\ Last(api_calls').lang = src_lang

\* C24: the interpretation of an api turn that decided 'yes' while ActiveAPI
\* has an entry in DialogueState makes exactly one call, with the
\* constraints of ActiveAPI in DialogueState, whatever the call does; no
\* other step of the run makes a call.
C24_OneCallPerYesTurnAndNoOther ==
    [][IF pc = "update" /\ CallIsDue THEN OneCallForActiveApi
       ELSE api_calls' = api_calls]_vars

\* C24 witness: after a dst turn, an api turn that decided 'yes' and an api
\* turn that decided 'no', one call has been made, with the constraints of
\* ActiveAPI.
C24_Witness ==
    /\ pc = "next"
    /\ Len(example_ids) = 3
    /\ Len(api_calls) = 1
    /\ TurnIds[1].target = Txt_dst
    /\ TurnIds[2].target = Txt_api /\ strip(predictions[2][1]) = Txt_yes
    /\ TurnIds[3].target = Txt_api /\ strip(predictions[3][1]) = Txt_no
    /\ api_calls[1].constraints = <<state2constraints(dialogue_state[active_api[1]])>>

\* ------------------------------------------------------------------------
\* What changes DialogueState and ActiveAPI (under Spec)
\* ------------------------------------------------------------------------

\* C25: a step that changes DialogueState or ActiveAPI is the interpretation
\* of the output of a dst turn or the routing of a turn with a new dialogue
\* id; no step of an api turn or of a response turn after its routing changes
\* either, whatever the model generated and whatever the API call did.
C25_OnlyDstTurnsAndResetsChangeState ==
    [][(dialogue_state' # dialogue_state \/ active_api' # active_api)
       => \/ pc = "update" /\ Last(TurnIds).target = Txt_dst
          \/ pc = "next" /\ pc' = "input" /\ cur_dial_id' # cur_dial_id]_vars

\* C25 witness: a dst turn, an api turn that made a call and a response turn
\* of one dialogue are done, and the state and ActiveAPI are those the dst
\* turn left.
C25_Witness ==
    /\ pc = "next"
    /\ Len(example_ids) = 3
    /\ TurnIds[1].target = Txt_dst
    /\ TurnIds[2].target = Txt_api
    /\ TurnIds[3].target = Txt_response
    /\ Len(api_calls) = 1
    /\ dialogue_state = DecodedModelOutputs[predictions[1][1]].val
    /\ dialogue_state # EmptyDict
    /\ active_api = Some(<<"h">>)

\* ------------------------------------------------------------------------
\* ActiveAPI after a dst turn (under SpecMerge)
\* ------------------------------------------------------------------------

\* C26: after a dst turn ActiveAPI is the last API of the delta in the
\* delta's iteration order, and the value it had before the turn when the
\* delta names no API.
C26_ActiveApiIsLastOfDelta ==
    (pc = "next" /\ Last(TurnIds).target = Txt_dst)
    => active_api = IF TurnDelta.keys = <<>> THEN fn_args.active_api
                    ELSE Some(TurnDelta.keys[Len(TurnDelta.keys)])

\* C26 witness: the delta '(h) p=d q=d (r) p=c' was applied while ActiveAPI
\* was h, and ActiveAPI is r.
C26_Witness ==
    /\ pc = "next"
    /\ Last(TurnIds).target = Txt_dst
    /\ fn_args.active_api = Some(<<"h">>)
    /\ Last(predictions) = <<Txt_h_pd_qd_r_pc>>
    /\ TurnDelta.keys = << <<"h">>, <<"r">> >>
    /\ active_api = Some(<<"r">>)

\* ------------------------------------------------------------------------
\* Completion of the run (under Spec)
\* ------------------------------------------------------------------------

\* every turn of the stream so far has a recognized sub-task
AllSubTasksRecognized ==
    \A i \in DOMAIN TurnIds : TurnIds[i].target \in {Txt_dst, Txt_api, Txt_response}

\* C27: a run over a stream of one or more turns that all have a recognized
\* sub-task (and contexts with both markers, as every context of the dataset
\* has) is never ended by an exception, whatever the model generates and
\* whatever each API call does: it goes on to persist the report, reconcile
\* the order and return.
C27_RecognizedStreamIsNeverAborted ==
    (pc = "raised" /\ example_ids # <<>>) => ~AllSubTasksRecognized

\* ------------------------------------------------------------------------
\* What original_order influences (under SpecOrder)
\* ------------------------------------------------------------------------

\* the second run has left the loop
SecondRunLeftLoop == fn_args # None /\ pc \in {"return", "raised"}

\* C28: a second run over the same stream, model outputs and API outcomes
\* with another original_order generates no more and calls no more than
\* the first, and leaves the loop as the first did: after the same turns,
\* with the same DialogueState and ActiveAPI, the same API calls, the same
\* report, persisted or not as in the first run, and the same exception if
\* any.
C28_OriginalOrderInfluencesNothingInTheLoop ==
    fn_args # None
    => /\ Len(predictions) <= Len(fn_args[1].predictions)
       /\ Len(api_calls) <= Len(fn_args[1].api_calls)
       /\ pc \in {"return", "raised"}
          => /\ pc = fn_args[1].pc
             /\ exception = fn_args[1].exception
             /\ example_ids = fn_args[1].example_ids
             /\ predictions = fn_args[1].predictions
             /\ contexts = fn_args[1].contexts
             /\ answers = fn_args[1].answers
             /\ dialogue_state = fn_args[1].dialogue_state
             /\ active_api = fn_args[1].active_api
             /\ api_calls = fn_args[1].api_calls
             /\ bitod_preds = fn_args[1].bitod_preds
             /\ persisted = fn_args[1].persisted

\* C28 witness: the second run, without original_order, has persisted its
\* report after two turns in which it merged a delta and made a call.
C28_Witness ==
    /\ SecondRunLeftLoop
    /\ pc = "return"
    /\ original_order = None /\ fn_args[1].original_order # None
    /\ Len(example_ids) = 2
    /\ dialogue_state # EmptyDict
    /\ Len(api_calls) = 1
    /\ persisted = Some(bitod_preds)

\* ------------------------------------------------------------------------
\* The predictions returned when original_order is supplied (under SpecSort)
\* ------------------------------------------------------------------------

\* the (key, prediction) pairs of the first n turns
KeyedPredictions(order, preds, n) == [i \in 1..n |-> <<order[i], preds[i]>>]

\* the step returned the predictions, one per processed turn, arranged by
\* ascending key
ReturnsPredictionsInOrder ==
    /\ pc' = "done"
    /\ output' # None
    /\ Len(output'[1].predictions) = Len(example_ids)
    /\ \A i, j \in 1..Len(example_ids) : i < j => original_order'[1][i] <= original_order'[1][j]
    /\ BagOf(KeyedPredictions(original_order'[1], output'[1].predictions, Len(example_ids)))
         = BagOf(KeyedPredictions(original_order[1], predictions, Len(example_ids)))

\* C29: when a key is supplied for each of the one or more processed turns,
\* the function returns the predictions sorted by the keys, one per turn,
\* whether output_predictions_only is false or true.
C29_ReturnsSortedPredictionsInBothModes ==
    [][(pc = "return" /\ original_order # None /\ example_ids # <<>>
        /\ Len(original_order[1]) = Len(example_ids))
       => ReturnsPredictionsInOrder]_vars

\* ------------------------------------------------------------------------
\* The knowledge span of a call that found items (under Spec)
\* ------------------------------------------------------------------------

\* the step made a call that returned count > 0
CallReturnedItems ==
    /\ CallMade
    /\ Last(api_calls').outcome # ApiRaises
    /\ Last(api_calls').outcome[2] > 0

\* C30: after an api turn whose call returned count > 0 the knowledge span
\* is the encoding of one record under the name of ActiveAPI, the record the
\* API returned as its top one: decoded, it has that API alone with exactly
\* the slots of that record; it is what the report holds as the turn's api
\* outcome.
C30_KnowledgeSpanIsTopRecordOfActiveApi ==
    [][(ApiTurnUpdate /\ CallReturnedItems)
       => LET record == Last(api_calls').outcome[1]
          IN  /\ pc' = "next"
              /\ new_knowledge_text' = knowledge2span(active_api[1] :> record)
              /\ span2state(new_knowledge_text', api_names).val = (active_api[1] :> record)
              /\ bitod_preds'[cur_dial_id].turns[str(Last(TurnIds).turn)]["api"]
                   = new_knowledge_text']_vars

\* C30 witness: the call of an api turn returned two items, and the
\* knowledge span is '(h) n=x', the top record under the name of ActiveAPI.
C30_Witness ==
    /\ pc = "next"
    /\ Len(example_ids) = 2
    /\ Last(TurnIds).target = Txt_api
    /\ Len(api_calls) = 1
    /\ api_calls[1].outcome = <<(<<"n">> :> <<"x">>), 2, <<"q">>>>
    /\ active_api = Some(<<"h">>)
    /\ new_knowledge_text = <<"(", "h", ")", " ", "n", "=", "x">>

\* ------------------------------------------------------------------------
\* A context without a required marker (under SpecMarker)
\* ------------------------------------------------------------------------

HasMarker(text, marker) == str_find(text, marker, 1) # 0

\* the context of the turn lacks a marker its sub-task substitutes: the
\* state marker, or for a response turn the knowledge marker
RequiredMarkerMissing ==
    \/ ~HasMarker(Last(contexts), state_re)
    \/ Last(TurnIds).target = Txt_response /\ ~HasMarker(Last(contexts), knowledge_re)

\* C31: building the input of a turn whose context lacks a marker its
\* sub-task substitutes raises: the model is not called, no prediction is
\* appended and the report is left as it was; the run has ended, so no entry
\* is written for the turn later either.
C31_MissingMarkerIsFatalBeforeTheModel ==
    [][/\ (pc = "input" /\ RequiredMarkerMissing)
          => /\ pc' = "raised"
             /\ exception' = Some("AttributeError")
             /\ generate_calls' = generate_calls
             /\ predictions' = predictions
             /\ bitod_preds' = bitod_preds
       /\ pc = "raised" => pc' = "raised"]_vars

\* C31 witness: a response turn whose context has the state marker and no
\* knowledge marker has raised, with no call of the model and an empty
\* report entry for the dialogue.
C31_Witness ==
    /\ pc = "raised"
    /\ exception = Some("AttributeError")
    /\ Last(TurnIds).target = Txt_response
    /\ HasMarker(Last(contexts), state_re)
    /\ ~HasMarker(Last(contexts), knowledge_re)
    /\ generate_calls = 0
    /\ predictions = <<>>
    /\ bitod_preds = (<<"a">> :> NewDialogueReport)

\* ------------------------------------------------------------------------
\* One turn per call of the model (under SpecBatch)
\* ------------------------------------------------------------------------

\* the lists, the per-dialogue locals, the report and the counters of calls
turn_vars ==
    <<example_ids, predictions, answers, contexts, cur_dial_id, dialogue_state,
      new_state_text, new_knowledge_text, active_api, bitod_preds, input_text, msg,
      generate_calls, api_calls, persisted>>

\* the model has been called once for each turn taken from the iterator and
\* each call produced the one prediction of that turn
OneCallPerTurn ==
    /\ generate_calls = Len(example_ids)
    /\ Len(predictions) = generate_calls
    /\ \A k \in 1..Len(predictions) : Len(predictions[k]) = 1

\* C32: a batch that fails the assertion leaves every list, the state and
\* the report as they were; a batch that is taken appends exactly one
\* example id; and once the model has answered for a turn, generate has been
\* called exactly once for each turn taken, each call yielding the one
\* prediction of its turn.
C32_OneTurnPerModelInvocation ==
    /\ [](pc \in {"update", "next", "return"} => OneCallPerTurn)
    /\ [][/\ exception' = Some("AssertionError") => UNCHANGED turn_vars
          /\ (pc = "next" /\ pc' = "input") => Len(example_ids') = Len(example_ids) + 1
          /\ generate_calls' # generate_calls
             => /\ generate_calls' = generate_calls + 1
                /\ pc = "input"
                /\ Len(example_ids) = generate_calls']_vars

\* C32 witness: after one turn was processed by one call of the model, the
\* next batch has failed the assertion, and the lists and the report hold
\* that one turn only.
C32_Witness ==
    /\ pc = "raised"
    /\ exception = Some("AssertionError")
    /\ Len(example_ids) = 1
    /\ generate_calls = 1
    /\ Len(predictions) = 1
    /\ Len(contexts) = 1
    /\ DOMAIN bitod_preds = {<<"a">>}

\* ------------------------------------------------------------------------
\* The four lists of the loop stay aligned (under Spec)
\* ------------------------------------------------------------------------

\* the batch of the iterator that carries the example id
BatchOf(id) == CHOOSE turn \in Dataset : turn.example_id = <<id>>

\* entry k of every list comes from the turn whose id is example_ids[k]
EntriesOfSameTurn(k) ==
    LET turn == BatchOf(example_ids[k])
    IN  /\ contexts[k] = turn.context
        /\ ~output_predictions_only => answers[k] = turn.answer
        /\ Len(predictions[k]) = 1
        /\ predictions[k][1] \in ModelOutputs(TargetOf(k))

\* C33: between two turns example_ids, predictions and contexts have one
\* entry per turn processed, answers has one too unless
\* output_predictions_only is set and then has none, and the entries at one
\* index are the context, the gold answer and the model output of the turn
\* whose id is at that index.
C33_ListsAlignedAfterEveryTurn ==
    BetweenTurns =>
        /\ Len(predictions) = Len(example_ids)
        /\ Len(contexts) = Len(example_ids)
        /\ generate_calls = Len(example_ids)
        /\ Len(answers) = IF output_predictions_only THEN 0 ELSE Len(example_ids)
        /\ \A k \in 1..Len(example_ids) : EntriesOfSameTurn(k)

\* C33 witness: three turns with answers collected were processed, of which
\* the first and the second differ in context, answer and the outputs the
\* model can give.
C33_Witness ==
    /\ pc = "next"
    /\ ~output_predictions_only
    /\ Len(example_ids) = MaxTurns
    /\ Len(answers) = MaxTurns
    /\ contexts[1] # contexts[2]
    /\ answers[1] # answers[2]
    /\ TargetOf(1) # TargetOf(2)

\* ------------------------------------------------------------------------
\* generate_with_seq2seq_model: one batch under every hyperparameter setting
\* (lines 414-506)
\* ------------------------------------------------------------------------

MaxBatchSize == 2

MaxNumOutputs == 2

MaxSettings == 2

\* args.temperature and args.num_outputs, one entry per hyperparameter
\* setting: temperature 0 or 1, num_outputs from 1 up
GenerationArgs ==
    UNION { [temperature : [1..n -> {0, 1}], num_outputs : [1..n -> 1..MaxNumOutputs]] :
            n \in 1..MaxSettings }

\* Lines 439-441: the num_outputs handed to model.generate
requested_outputs(args, hyperparameter_idx) ==
    IF args.temperature[hyperparameter_idx] # 0 THEN args.num_outputs[hyperparameter_idx]
    ELSE 1

\* Lines 439-454: generated.sequences of a batch, num_outputs sequences for
\* each example, those of one example next to each other and the examples in
\* the order of the batch.  A sequence is written as the example it was
\* generated for and its number among the sequences of that example; list
\* index i of Python is index i + 1 here.
model_generate(batch_size, num_outputs) ==
    [i \in 1..(batch_size * num_outputs) |->
        [example |-> ((i - 1) \div num_outputs) + 1, sample |-> ((i - 1) % num_outputs) + 1]]

\* Lines 500-501, with the Python index i and a result counted from 1
get_example_index(i, args, hyperparameter_idx, batch_size) ==
    ((i \div args.num_outputs[hyperparameter_idx]) % batch_size) + 1

\* Lines 520-522: the outputs put into the lists of the batch, from Python
\* index i on
RECURSIVE put_predictions(_, _, _, _, _)
put_predictions(batch_prediction, partial_batch_prediction, i, args, hyperparameter_idx) ==
    IF i >= Len(partial_batch_prediction) THEN batch_prediction
    ELSE LET e == get_example_index(i, args, hyperparameter_idx, Len(batch_prediction))
         IN  put_predictions(
                 [batch_prediction EXCEPT ![e] = Append(@, partial_batch_prediction[i + 1])],
                 partial_batch_prediction, i + 1, args, hyperparameter_idx)

\* The state before a batch of the iterator is taken: fn_args holds args and
\* the size of the batch, fn_ret will hold batch_prediction.
InitGen ==
    /\ pc = "batch"
    /\ fn_args \in [args : GenerationArgs, batch_size : 1..MaxBatchSize]
    /\ fn_ret = None
    /\ PipelineIdle

\* Lines 414-421: the lists of the batch are created empty and the ids of
\* the batch appended
StartBatch ==
    /\ pc = "batch"
    /\ fn_ret' = Some([e \in 1..fn_args.batch_size |-> <<>>])
    /\ example_ids' = example_ids \o [e \in 1..fn_args.batch_size |-> e]
    /\ pc' = "settings"
    /\ UNCHANGED <<fn_args, exception, output_predictions_only, original_order, predictions,
                   answers, contexts, cur_dial_id, dialogue_state, new_state_text,
                   new_knowledge_text, active_api, bitod_preds, input_text, msg,
                   generate_calls, api_calls, persisted, output>>

\* Lines 438-524: one pass of the loop over the hyperparameter settings
GenerateSetting ==
    /\ pc = "settings"
    /\ generate_calls < Len(fn_args.args.temperature)
    /\ LET hyperparameter_idx == generate_calls + 1
           generated == model_generate(fn_args.batch_size,
                                       requested_outputs(fn_args.args, hyperparameter_idx))
       IN  fn_ret' = Some(put_predictions(fn_ret[1], generated, 0, fn_args.args,
                                          hyperparameter_idx))
    /\ generate_calls' = generate_calls + 1
    /\ UNCHANGED <<pc, fn_args, exception, output_predictions_only, original_order,
                   example_ids, predictions, answers, contexts, cur_dial_id, dialogue_state,
                   new_state_text, new_knowledge_text, active_api, bitod_preds, input_text,
                   msg, api_calls, persisted, output>>

\* Line 526: the lists of the batch are appended to predictions
AppendBatch ==
    /\ pc = "settings"
    /\ generate_calls = Len(fn_args.args.temperature)
    /\ predictions' = predictions \o fn_ret[1]
    /\ pc' = "appended"
    /\ UNCHANGED <<fn_args, fn_ret, exception, output_predictions_only, original_order,
                   example_ids, answers, contexts, cur_dial_id, dialogue_state,
                   new_state_text, new_knowledge_text, active_api, bitod_preds, input_text,
                   msg, generate_calls, api_calls, persisted, output>>

NextGen == StartBatch \/ GenerateSetting \/ AppendBatch

SpecGen == InitGen /\ [][NextGen]_vars

\* the outputs generated for example e under the settings 1..h, in order
RECURSIVE GeneratedFor_example(_, _, _)
GeneratedFor_example(e, args, h) ==
    IF h = 0 THEN <<>>
    ELSE GeneratedFor_example(e, args, h - 1) \o
         [k \in 1..requested_outputs(args, h) |-> [example |-> e, sample |-> k]]

\* C34: when the batch has been through every hyperparameter setting, the
\* prediction list of each example holds exactly the outputs generated for
\* that example, num_outputs of them for a setting with non-zero temperature
\* and one for a setting with temperature 0, so the lists of the batch have
\* the same length.
C34_EveryOutputGoesToItsExample ==
    pc = "appended" =>
        \A e \in 1..fn_args.batch_size :
            predictions[e] = GeneratedFor_example(e, fn_args.args, Len(fn_args.args.temperature))

\* the same, for the settings with non-zero temperature alone
C34_SampledOutputsGoToTheirExample ==
    (pc = "appended" /\ \A h \in DOMAIN fn_args.args.temperature : fn_args.args.temperature[h] # 0) =>
        \A e \in 1..fn_args.batch_size :
            predictions[e] = GeneratedFor_example(e, fn_args.args, Len(fn_args.args.temperature))

\* ------------------------------------------------------------------------
\* The special tokens stripped from the tokens of a context (lines 183-192)
\* ------------------------------------------------------------------------

MaxTokens == 4

\* numericalizer._tokenizer.all_special_tokens
special_tokens == {"<s>", "</s>"}

\* the token sequences convert_ids_to_tokens can give for a context: a row
\* of the context tensor has a token at least
TokenSequences == SeqsUpTo(special_tokens \cup {"a", "b"}, MaxTokens) \ {<<>>}

\* Python's text[i] for a list: None for an index out of range, which is an
\* IndexError; a negative index counts from the end
list_item(text, i) ==
    IF 0 <= i /\ i < Len(text) THEN Some(text[i + 1])
    ELSE IF i < 0 /\ 0 - Len(text) <= i THEN Some(text[Len(text) + i + 1])
    ELSE None

\* Lines 185-186: the value of i when the first loop ends, None when
\* text[i] is out of range and IndexError is raised
RECURSIVE skip_leading(_, _)
skip_leading(text, i) ==
    LET token == list_item(text, i)
    IN  IF token = None THEN None
        ELSE IF token[1] \in special_tokens THEN skip_leading(text, i + 1)
        ELSE Some(i)

\* Lines 188-189: the value of j when the second loop ends, None when
\* text[j] is out of range and IndexError is raised
RECURSIVE skip_trailing(_, _)
skip_trailing(text, j) ==
    LET token == list_item(text, j)
    IN  IF token = None THEN None
        ELSE IF token[1] \in special_tokens THEN skip_trailing(text, j - 1)
        ELSE Some(j)

\* Python's text[i : j + 1] for 0 <= i and -1 <= j
list_slice(text, i, j) == SubSeq(text, i + 1, Min({j + 1, Len(text)}))

\* Lines 184-190: the tokens kept, None when IndexError is raised
strip_special_tokens(text) ==
    LET i == skip_leading(text, 0)
    IN  IF i = None THEN None
        ELSE LET j == skip_trailing(text, Len(text) - 1)
             IN  IF j = None THEN None
                 ELSE Some(list_slice(text, i[1], j[1]))

InitStrip ==
    /\ pc = "call"
    /\ fn_args \in TokenSequences
    /\ fn_ret = None
    /\ PipelineIdle

\* Lines 183-192 for the one token sequence of the batch: the tokens kept
\* are appended to the contexts unless an exception ends the run
StripSpecialTokens ==
    /\ pc = "call"
    /\ LET kept == strip_special_tokens(fn_args)
       IN  /\ fn_ret' = kept
           /\ IF kept = None
              THEN /\ Raise("IndexError")
                   /\ UNCHANGED contexts
              ELSE /\ contexts' = Append(contexts, kept[1])
                   /\ pc' = "returned"
                   /\ UNCHANGED exception
    /\ UNCHANGED <<fn_args, output_predictions_only, original_order, example_ids, predictions,
                   answers, cur_dial_id, dialogue_state, new_state_text, new_knowledge_text,
                   active_api, bitod_preds, input_text, msg, generate_calls, api_calls,
                   persisted, output>>

NextStrip == StripSpecialTokens

SpecStrip == InitStrip /\ [][NextStrip]_vars

\* the positions of the tokens that are not special
PlainPositions(text) == {k \in 1..Len(text) : text[k] \notin special_tokens}

Max(S) == CHOOSE x \in S : \A y \in S : y <= x

\* the tokens from the first to the last token that is not special, none
\* when every token is special
BetweenPlainTokens(text) ==
    IF PlainPositions(text) = {} THEN <<>>
    ELSE SubSeq(text, Min(PlainPositions(text)), Max(PlainPositions(text)))

\* C35: for every token sequence, one made of special tokens only included,
\* the two loops end without an exception and the tokens kept are those
\* from the first to the last token that is not special.
C35_StripsOuterSpecialTokensOfEverySequence ==
    pc # "call" =>
        /\ pc = "returned"
        /\ contexts = <<BetweenPlainTokens(fn_args)>>

\* the same for the sequences with a token that is not special
C35_StripsOuterSpecialTokensAroundPlainTokens ==
    (pc # "call" /\ PlainPositions(fn_args) # {}) =>
        /\ pc = "returned"
        /\ contexts = <<BetweenPlainTokens(fn_args)>>

\* a sequence without a token that is not special ends the run with an
\* IndexError
C35_OnlySpecialTokensRaise ==
    (pc # "call" /\ PlainPositions(fn_args) = {}) =>
        /\ pc = "raised"
        /\ exception = Some("IndexError")
        /\ contexts = <<>>

\* ------------------------------------------------------------------------
\* CombinedEmbedding.resize_embedding (models/common.py, lines 391-401)
\* ------------------------------------------------------------------------

MaxVocab == 2

MaxDimension == 2

\* the values of a weight
WeightValues == {0, 1}

\* the weight of an nn.Embedding of the given shape, whatever its values
EmbeddingWeights(vocab_size, dimension) ==
    [1..vocab_size -> [1..dimension -> WeightValues]]

\* self.trained_embeddings: None, or the weight of an embedding with a row
\* per token
TrainedEmbeddings ==
    {None} \cup
    UNION { {Some(weight) : weight \in EmbeddingWeights(n, d)} :
            n \in 1..MaxVocab, d \in 1..MaxDimension }

\* resize_embedding that returns the new embedding as it was created
resized_embeddings_not_copied(weight, new_vocab_size) ==
    EmbeddingWeights(new_vocab_size, Len(weight[1]))

\* Lines 399-400: the weights the resized embedding can have, the new rows
\* as nn.Embedding initialized them and rows 0..dimensions[0]-1 overwritten
\* by the old weight
resized_embeddings(weight, new_vocab_size) ==
    { [k \in 1..new_vocab_size |-> IF k <= Len(weight) THEN weight[k] ELSE created[k]] :
      created \in EmbeddingWeights(new_vocab_size, Len(weight[1])) }

\* fn_args holds self.trained_embeddings before the call and the argument,
\* fn_ret will hold self.trained_embeddings after the call
InitResize ==
    /\ pc = "call"
    /\ fn_args \in [trained_embeddings : TrainedEmbeddings, new_vocab_size : 0..(MaxVocab + 1)]
    /\ fn_ret = None
    /\ PipelineIdle

\* Lines 391-401
ResizeEmbedding ==
    /\ pc = "call"
    /\ LET trained_embeddings == fn_args.trained_embeddings
           new_vocab_size == fn_args.new_vocab_size
       IN  IF trained_embeddings = None
           THEN /\ fn_ret' = trained_embeddings
                /\ pc' = "returned"
                /\ UNCHANGED exception
           ELSE IF new_vocab_size = Len(trained_embeddings[1])
           THEN /\ fn_ret' = trained_embeddings
                /\ pc' = "returned"
                /\ UNCHANGED exception
           ELSE IF ~(new_vocab_size > Len(trained_embeddings[1]))
           THEN /\ fn_ret' = trained_embeddings
                /\ Raise("AssertionError")
           ELSE /\ \E weight \in resized_embeddings(trained_embeddings[1], new_vocab_size) :
                     fn_ret' = Some(weight)
                /\ pc' = "returned"
                /\ UNCHANGED exception
    /\ UNCHANGED <<fn_args, pipeline_vars_but_exception>>

NextResize == ResizeEmbedding

SpecResize == InitResize /\ [][NextResize]_vars

\* C36: after resize_embedding, a missing table is still missing and a table
\* asked to keep its size is unchanged; a smaller size has failed the
\* assertion with the table unchanged; a larger size has given a table of
\* the new size and the old dimension whose first rows are the old rows.
C36_ResizeKeepsTrainedRows ==
    pc # "call" =>
        LET before == fn_args.trained_embeddings
            new_vocab_size == fn_args.new_vocab_size
        IN  IF before = None \/ new_vocab_size = Len(before[1])
            THEN pc = "returned" /\ fn_ret = before
            ELSE IF new_vocab_size < Len(before[1])
            THEN pc = "raised" /\ exception = Some("AssertionError") /\ fn_ret = before
            ELSE /\ pc = "returned"
                 /\ Len(fn_ret[1]) = new_vocab_size
                 /\ \A k \in 1..new_vocab_size : Len(fn_ret[1][k]) = Len(before[1][1])
                 /\ \A k \in 1..Len(before[1]) : fn_ret[1][k] = before[1][k]

\* C36 witness: a table of two rows with different values was resized to
\* three rows, it kept the two rows and the new row differs from both.
C36_Witness ==
    /\ pc = "returned"
    /\ fn_args.trained_embeddings # None
    /\ Len(fn_args.trained_embeddings[1]) = MaxVocab
    /\ fn_args.trained_embeddings[1][1] # fn_args.trained_embeddings[1][2]
    /\ fn_args.new_vocab_size = MaxVocab + 1
    /\ Len(fn_ret[1]) = MaxVocab + 1
    /\ SubSeq(fn_ret[1], 1, MaxVocab) = fn_args.trained_embeddings[1]
    /\ fn_ret[1][MaxVocab + 1] \notin {fn_args.trained_embeddings[1][k] : k \in 1..MaxVocab}

====
